---- MODULE Spec2Model ----
(***************************************************************************)
(* Verification model of repo_to_pdf (githubRepo2Pdf).                     *)
(*                                                                         *)
(* The program is a sequential pipeline.  Each component is modelled by a  *)
(* group of variables and by one specification over them:                  *)
(*   SpecGlob   core/path_matching.py        posix_glob_match              *)
(*   SpecDetect converters/emoji_handler.py   the emoji pattern             *)
(*   SpecEmoji  converters/emoji_handler.py   ensure_emoji_png              *)
(*   SpecSvg    converters/image_converter.py convert_svg_to_png            *)
(*   SpecImage  converters/image_converter.py the conversion cache          *)
(*   SpecConv   converter.py                  convert(), _generate_markdown *)
(*   SpecMd     processors/markdown_processor.py  the image passes          *)
(* A specification leaves the variables of the other components at their   *)
(* idle values.                                                            *)
(*                                                                         *)
(* Text is a sequence of one-character strings; a path is a sequence of    *)
(* segments.                                                               *)
(***************************************************************************)
EXTENDS Integers, Sequences, FiniteSets, TLC

VARIABLES
    g_path,     \* posix_glob_match: the path argument (characters)
    g_pat,      \* posix_glob_match: the pattern argument (characters)
    g_pc,       \* "input" before the call, "matched" after it
    g_res,      \* the value posix_glob_match returned
    e_text,     \* emoji detection: the text (code points, lower-case hex)
    e_pc,       \* "input" before extract_emojis, "extracted" after it
    e_items,    \* the list extract_emojis returned
    em_enable,  \* EmojiHandler.enable_download
    em_cache,   \* EmojiHandler._emoji_cache
    em_disk,    \* the <sequence>.png files in the emoji cache directory
    em_last,    \* the last ensure_emoji_png call: argument, result, lookups made
    em_first,   \* per sequence, what its first ensure_emoji_png call returned
    sc_svg,     \* convert_svg_to_png: the SVG content
    sc_pc,      \* "input" before the call, "returned" after it
    sc_out,     \* what the call did: result, file written, rasterizers run
    sv_files,   \* ImageConverter: content of each local image file
    sv_cache,   \* ImageConverter._conversion_cache
    sv_disk,    \* the <hash>.png files in the image cache directory
    sv_last,    \* the last conversion call: content, result, rasterizer runs
    sv_firstName, \* per content, the cache file name first returned for it
    cv_pc,      \* convert(): the step it is at, "done" or "error"
    cv_repo_path, \* self.repo_path (segments)
    cv_repo,    \* the files of the cloned repository
    cv_cfg,     \* pdf_settings: include_tree, include_stats, include_hidden_paths
    cv_found,   \* the files in the order rglob yielded them
    cv_files,   \* all_files, the list _collect_files returned
    cv_i,       \* index in all_files of the file processed next
    cv_doc,     \* what has been written to temp.md, in order
    cv_failed,  \* the files whose processing raised
    cv_cause,   \* the step whose exception ended convert()
    md_pc,      \* process_markdown_content: the pass that runs next, or "done"
    md_src,     \* the image references of the content passed in
    md_defs,    \* the reference definitions of the content
    md_net,     \* whether a download of a remote image succeeds
    md_existing, \* the image paths that resolve to a file of the repository
    md_doc,     \* the image references of the content after the passes so far
    p_fn,       \* processors: the function under call
    p_args,     \* its arguments
    p_pc,       \* "input" before the call, "returned" after it
    p_ret,      \* the value it returned
    dl_first,   \* per URL, the cache path first returned for it in this run
    dl_cache,   \* ImageConverter._conversion_cache, for the URL
    dl_disk,    \* the files of the image cache directory
    dl_http,    \* the number of GET requests sent in this run
    dl_last,    \* the last download_remote_image call
    gt_dir,     \* GitRepoManager: what is at workspace_dir / repo_name
    gt_calls,   \* the clone_or_pull calls so far: what each did and how it ended
    as_repo,    \* image copying: the Markdown file, its image, the image files
    as_queue,   \* the files of all_files not processed yet, in order
    as_images,  \* the files of the images directory: name and origin
    as_doc,     \* the image references written to the document
    as_pc       \* "files" while files are processed, then "pandoc"

globVars == <<g_path, g_pat, g_pc, g_res>>
detectVars == <<e_text, e_pc, e_items>>
emojiVars == <<em_enable, em_cache, em_disk, em_last, em_first>>
svgVars == <<sc_svg, sc_pc, sc_out>>
imageVars == <<sv_files, sv_cache, sv_disk, sv_last, sv_firstName>>
convVars == <<cv_pc, cv_repo_path, cv_repo, cv_cfg, cv_found, cv_files, cv_i, cv_doc, cv_failed, cv_cause>>
mdVars == <<md_pc, md_src, md_defs, md_net, md_existing, md_doc>>
procVars == <<p_fn, p_args, p_pc, p_ret>>
dlVars == <<dl_first, dl_cache, dl_disk, dl_http, dl_last>>
gitVars == <<gt_dir, gt_calls>>
assetVars == <<as_repo, as_queue, as_images, as_doc, as_pc>>
runVars == <<dlVars, gitVars, assetVars>>

vars == <<globVars, detectVars, emojiVars, svgVars, imageVars, convVars, mdVars,
         procVars, runVars>>


(***************************************************************************)
(* Generic helpers on sequences.                                           *)
(***************************************************************************)
RECURSIVE SeqsUpTo(_, _)
SeqsUpTo(S, n) ==
    IF n = 0 THEN {<<>>}
    ELSE LET shorter == SeqsUpTo(S, n - 1)
         IN  shorter \cup {Append(s, x) : s \in {t \in shorter : Len(t) = n - 1}, x \in S}

RECURSIVE Flatten(_)
Flatten(ss) == IF ss = <<>> THEN <<>> ELSE Head(ss) \o Flatten(Tail(ss))

IsPrefix(p, s) == Len(p) <= Len(s) /\ SubSeq(s, 1, Len(p)) = p

(***************************************************************************)
(* core/path_matching.py                                                   *)
(***************************************************************************)
MaxSegs == 3

\* str.lower() on the characters the model uses.
LowerStr(s) ==
    [k \in 1..Len(s) |-> IF s[k] = "A" THEN "a" ELSE IF s[k] = "B" THEN "b" ELSE s[k]]

\* str.replace("\\", "/")
ReplaceBackslash(s) == [k \in 1..Len(s) |-> IF s[k] = "\\" THEN "/" ELSE s[k]]

\* str.lstrip(chars): drops every leading character that is in the SET chars.
RECURSIVE LStrip(_, _)
LStrip(s, chars) ==
    IF s # <<>> /\ Head(s) \in chars THEN LStrip(Tail(s), chars) ELSE s

RECURSIVE RStrip(_, _)
RStrip(s, chars) ==
    IF s # <<>> /\ s[Len(s)] \in chars THEN RStrip(SubSeq(s, 1, Len(s) - 1), chars) ELSE s

\* str.strip(): leading and trailing whitespace.
Strip(s) == RStrip(LStrip(s, {" "}), {" "})

\* str.split("/"): the pieces between separators, empty pieces included.
RECURSIVE SplitSlash(_, _)
SplitSlash(s, cur) ==
    IF s = <<>> THEN <<cur>>
    ELSE IF Head(s) = "/" THEN <<cur>> \o SplitSlash(Tail(s), <<>>)
    ELSE SplitSlash(Tail(s), Append(cur, Head(s)))

RECURSIVE DropEmptyAndDot(_)
DropEmptyAndDot(ps) ==
    IF ps = <<>> THEN <<>>
    ELSE IF Head(ps) = <<>> \/ Head(ps) = <<".">> THEN DropEmptyAndDot(Tail(ps))
    ELSE <<Head(ps)>> \o DropEmptyAndDot(Tail(ps))

\* _split_posix_parts; the prefix removal is lstrip("./") then lstrip("/").
split_posix_parts(value) ==
    LET v == ReplaceBackslash(Strip(value))
        stripped == LStrip(LStrip(v, {".", "/"}), {"/"})
    IN  DropEmptyAndDot(SplitSlash(stripped, <<>>))

\* fnmatch.fnmatchcase on one segment: "*" any run, "?" any one character,
\* every other character itself (bracket classes are not in the alphabet).
RECURSIVE FnMatchCase(_, _)
FnMatchCase(seg, pat) ==
    IF pat = <<>> THEN seg = <<>>
    ELSE IF Head(pat) = "*"
         THEN FnMatchCase(seg, Tail(pat))
              \/ (seg # <<>> /\ FnMatchCase(Tail(seg), pat))
    ELSE IF seg = <<>> THEN FALSE
    ELSE (Head(pat) = "?" \/ Head(pat) = Head(seg)) /\ FnMatchCase(Tail(seg), Tail(pat))

\* seg_match with case_sensitive=False (the default).
seg_match(segment, pat) == FnMatchCase(LowerStr(segment), LowerStr(pat))

DoubleStar == <<"*", "*">>

\* dp(i, j) with 0-based i, j as in the source; sequences are 1-based here.
\* The "**" branch: zero segments, or one more path segment absorbed.
RECURSIVE dp(_, _, _, _)
dp(path_parts, pattern_parts, i, j) ==
    IF j >= Len(pattern_parts) THEN i >= Len(path_parts)
    ELSE IF pattern_parts[j + 1] = DoubleStar
         THEN dp(path_parts, pattern_parts, i, j + 1)
              \/ (i + 1 <= Len(path_parts) /\ dp(path_parts, pattern_parts, i + 1, j))
    ELSE IF i >= Len(path_parts) THEN FALSE
    ELSE seg_match(path_parts[i + 1], pattern_parts[j + 1])
         /\ dp(path_parts, pattern_parts, i + 1, j + 1)

posix_glob_match(path, pattern) ==
    dp(split_posix_parts(path), split_posix_parts(pattern), 0, 0)

\* Inputs: an optional prefix, then segments joined by "/".
RECURSIVE JoinSlash(_)
JoinSlash(segs) ==
    IF segs = <<>> THEN <<>>
    ELSE IF Len(segs) = 1 THEN Head(segs)
    ELSE Head(segs) \o <<"/">> \o JoinSlash(Tail(segs))

GlobIdle == g_path = <<>> /\ g_pat = <<>> /\ g_pc = "idle" /\ g_res = FALSE

PosixGlobMatch ==
    /\ g_pc = "input"
    /\ g_res' = posix_glob_match(g_path, g_pat)
    /\ g_pc' = "matched"
    /\ UNCHANGED <<g_path, g_pat>>
    /\ UNCHANGED <<detectVars, emojiVars, svgVars,
                   imageVars, convVars, mdVars, procVars, runVars>>

(***************************************************************************)
(* converters/emoji_handler.py: detection                                  *)
(***************************************************************************)
MaxText == 4

\* Code points: two bases of the ranges U+1F300-U+1FAFF / U+2600-U+27BF,
\* VS16, ZWJ and one character that is no emoji.
EmojiBase == {"1f468", "2764"}
VS16 == "fe0f"
ZWJ == "200d"
CodePoints == EmojiBase \cup {VS16, ZWJ, "78"}

At(text, k) == IF k >= 1 /\ k <= Len(text) THEN text[k] ELSE "eof"

\* The repeated group (ZWJ, base, optional VS16) from position q (the last one consumed):
\* greedy, and nothing after it can fail, so it never backtracks.  g3 is the
\* last VS16 the inner group captured.
RECURSIVE ZwjTail(_, _, _)
ZwjTail(text, q, g3) ==
    IF At(text, q + 1) = ZWJ /\ At(text, q + 2) \in EmojiBase
    THEN IF At(text, q + 3) = VS16
         THEN ZwjTail(text, q + 3, VS16)
         ELSE ZwjTail(text, q + 2, g3)
    ELSE [end |-> q, g3 |-> g3]

\* One match of the compiled pattern starting at p (text[p] is a base).
EmojiMatchAt(text, p) ==
    LET hasVs == At(text, p + 1) = VS16
        tail == ZwjTail(text, IF hasVs THEN p + 1 ELSE p, "")
    IN  [start |-> p, end |-> tail.end,
         g1 |-> text[p], g2 |-> IF hasVs THEN VS16 ELSE "", g3 |-> tail.g3]

\* The non-overlapping matches, left to right (finditer / sub / findall).
RECURSIVE EmojiMatches(_, _)
EmojiMatches(text, pos) ==
    IF pos > Len(text) THEN <<>>
    ELSE IF text[pos] \in EmojiBase
         THEN LET m == EmojiMatchAt(text, pos)
              IN  <<m>> \o EmojiMatches(text, m.end + 1)
    ELSE EmojiMatches(text, pos + 1)

\* match.group(0), what replace_match receives and replaces.
Group0(text, m) == SubSeq(text, m.start, m.end)

\* extract_emojis: re.findall on a pattern with three groups, one tuple of
\* groups per match.
extract_emojis(text) ==
    LET ms == EmojiMatches(text, 1)
    IN  [k \in 1..Len(ms) |-> <<ms[k].g1, ms[k].g2, ms[k].g3>>]

DetectIdle == e_text = <<>> /\ e_pc = "idle" /\ e_items = <<>>

ExtractEmojis ==
    /\ e_pc = "input"
    /\ e_items' = extract_emojis(e_text)
    /\ e_pc' = "extracted"
    /\ UNCHANGED e_text
    /\ UNCHANGED <<globVars, emojiVars, svgVars,
                   imageVars, convVars, mdVars, procVars, runVars>>

(***************************************************************************)
(* converters/emoji_handler.py: ensure_emoji_png                           *)
(***************************************************************************)
TWEMOJI_VERSIONS == <<"v14.0.2", "v14.0.0", "master">>

\* The sequences asked for: hyphen-joined code points, kept as their parts.
EmojiSeqs ==
    { <<"1f468">>, <<"2764", "fe0f">>, <<"1f468", "fe0f", "200d", "2764">> }

RECURSIVE WithoutFe0f(_)
WithoutFe0f(parts) ==
    IF parts = <<>> THEN <<>>
    ELSE IF Head(parts) = "fe0f" THEN WithoutFe0f(Tail(parts))
    ELSE <<Head(parts)>> \o WithoutFe0f(Tail(parts))

InSeq(x, sq) == \E k \in 1..Len(sq) : sq[k] = x

generate_fallback_sequences(sequence) ==
    LET s1 == <<sequence>>
        no_fe0f == WithoutFe0f(sequence)
        s2 == IF InSeq(no_fe0f, s1) THEN s1 ELSE Append(s1, no_fe0f)
        first == <<Head(sequence)>>
    IN  IF InSeq(first, s2) THEN s2 ELSE Append(s2, first)

\* Values: a cache entry or a return value.  "absent": no cache entry;
\* "empty": the string ""; "none": None; "file": <name>.png.
Absent == [k |-> "absent", name |-> <<>>]
EmptyStr == [k |-> "empty", name |-> <<>>]
NoneVal == [k |-> "none", name |-> <<>>]
File(name) == [k |-> "file", name |-> name]

\* What the handler memoizes for a sequence that turned out unavailable.
MemoUnavailable_Forget(cache, sequence) == cache

MemoUnavailable(cache, sequence) == [cache EXCEPT ![sequence] = EmptyStr]

\* The first candidate that is on disk, 0 when none is.
FirstOnDisk(cands, disk) ==
    IF \E k \in 1..Len(cands) : cands[k] \in disk
    THEN CHOOSE k \in 1..Len(cands) :
            cands[k] \in disk /\ \A l \in 1..(k - 1) : cands[l] \notin disk
    ELSE 0

NoCall == [seq |-> <<>>, ret |-> NoneVal, lookups |-> 0, http |-> 0, first |-> FALSE]

EmojiIdle ==
    /\ em_enable = FALSE
    /\ em_cache = <<>>
    /\ em_disk = {}
    /\ em_last = NoCall
    /\ em_first = <<>>

Returned(sequence, ret, lookups, http) ==
    /\ em_last' = [seq |-> sequence, ret |-> ret, lookups |-> lookups, http |-> http,
                   first |-> em_first[sequence] = Absent]
    /\ em_first' = IF em_first[sequence] = Absent
                   THEN [em_first EXCEPT ![sequence] = ret]
                   ELSE em_first

\* ensure_emoji_png, answered from the memory cache.
EnsureFromMemory(sequence) ==
    /\ em_cache[sequence] # Absent
    /\ Returned(sequence, em_cache[sequence], 0, 0)
    /\ UNCHANGED <<em_enable, em_cache, em_disk>>
    /\ UNCHANGED <<globVars, detectVars, svgVars,
                   imageVars, convVars, mdVars, procVars, runVars>>

\* ensure_emoji_png, a variant found on disk.
EnsureFromDisk(sequence) ==
    LET cands == generate_fallback_sequences(sequence)
        k == FirstOnDisk(cands, em_disk)
    IN  /\ em_cache[sequence] = Absent
        /\ k > 0
        /\ em_cache' = [em_cache EXCEPT ![sequence] = File(cands[k])]
        /\ Returned(sequence, File(cands[k]), k, 0)
        /\ UNCHANGED <<em_enable, em_disk>>
        /\ UNCHANGED <<globVars, detectVars, svgVars,
                       imageVars, convVars, mdVars, procVars, runVars>>

\* ensure_emoji_png, nothing on disk and downloads disabled.
EnsureDisabled(sequence) ==
    LET cands == generate_fallback_sequences(sequence)
    IN  /\ em_cache[sequence] = Absent
        /\ FirstOnDisk(cands, em_disk) = 0
        /\ ~em_enable
        /\ em_cache' = MemoUnavailable(em_cache, sequence)
        /\ Returned(sequence, NoneVal, Len(cands), 0)
        /\ UNCHANGED <<em_enable, em_disk>>
        /\ UNCHANGED <<globVars, detectVars, svgVars,
                       imageVars, convVars, mdVars, procVars, runVars>>

\* ensure_emoji_png through _download_emoji_svg: request number hit (versions
\* outer, candidates inner) is the first to answer 200 with content, 0 when
\* none does; the rasterizer then succeeds or fails.
EnsureDownload(sequence) ==
    LET cands == generate_fallback_sequences(sequence)
        n == Len(cands)
        total == Len(TWEMOJI_VERSIONS) * n
    IN  /\ em_cache[sequence] = Absent
        /\ FirstOnDisk(cands, em_disk) = 0
        /\ em_enable
        /\ \E hit \in 0..total, rasterOk \in BOOLEAN :
              LET chosen == cands[((hit - 1) % n) + 1]
                  got == hit > 0 /\ rasterOk
                  png == IF got THEN File(chosen) ELSE NoneVal
              IN  /\ hit = 0 => rasterOk
                  /\ em_disk' = IF got THEN em_disk \cup {chosen} ELSE em_disk
                  /\ em_cache' = IF got
                                 THEN [em_cache EXCEPT ![sequence] = png]
                                 ELSE MemoUnavailable(em_cache, sequence)
                  /\ Returned(sequence, png, n, IF hit = 0 THEN total ELSE hit)
        /\ UNCHANGED em_enable
        /\ UNCHANGED <<globVars, detectVars, svgVars,
                       imageVars, convVars, mdVars, procVars, runVars>>

(***************************************************************************)
(* converters/image_converter.py: convert_svg_to_png                       *)
(***************************************************************************)
\* An SVG document, by what the converter reads of it.  A dimension is
\* "absent", "zero" (a number equal to 0, with or without px) or "pos"; the
\* viewBox is "absent", "zero" (four numbers, width or height 0), "pos" or
\* "junk" (not four numbers).
SvgContent ==
    [w : {"absent", "zero", "pos"}, h : {"absent", "zero", "pos"},
     vb : {"absent", "zero", "pos", "junk"}, icon : BOOLEAN, wellformed : BOOLEAN]

is_icon_definition(svg) == svg.icon

is_zero_dimension(dimension) == dimension = "zero"

\* _extract_from_viewbox: sets width and height from a viewBox of four
\* numbers; its own except clause swallows the zero-dimension error it raises.
extract_from_viewbox(svg) ==
    IF svg.vb = "pos" THEN [svg EXCEPT !.w = "pos", !.h = "pos"] ELSE svg

\* _fix_svg_dimensions: "raise" or the SVG with its dimensions repaired
\* ("pos" then also stands for the 800px x 600px default).
fix_svg_dimensions(svg) ==
    IF ~svg.wellformed THEN [raised |-> TRUE, svg |-> svg]
    ELSE IF is_zero_dimension(svg.w) \/ is_zero_dimension(svg.h)
         THEN [raised |-> TRUE, svg |-> svg]
    ELSE LET fromVb == IF svg.vb # "absent" /\ ~(svg.w # "absent" /\ svg.h # "absent")
                       THEN extract_from_viewbox(svg) ELSE svg
             sized == IF ~(fromVb.w # "absent" /\ fromVb.h # "absent")
                      THEN [fromVb EXCEPT !.w = "pos", !.h = "pos"] ELSE fromVb
         IN  [raised |-> FALSE, svg |-> sized]

\* What one call did.  cairo, ink: whether that rasterizer was run.
Did(ret, wrote, cairo, ink) == [ret |-> ret, wrote |-> wrote, cairo |-> cairo, ink |-> ink]

\* _convert_with_inkscape: the CLI writes the file and exits 0, or it does not
\* (not installed, non-zero exit, timeout); no exception leaves it.
convert_with_inkscape(cairo) == {Did(TRUE, TRUE, cairo, TRUE), Did(FALSE, FALSE, cairo, TRUE)}

\* The except branch of convert_svg_to_png.
OnException(use_inkscape_fallback, cairo) ==
    IF use_inkscape_fallback THEN convert_with_inkscape(cairo)
    ELSE {Did(FALSE, FALSE, cairo, FALSE)}

\* convert_svg_to_png: every outcome the call can have.  The import of
\* cairosvg, inside the try, succeeds or raises; cairosvg.svg2png writes the
\* file or raises.
convert_svg_to_png(svg, use_inkscape_fallback) ==
    LET imported ==
            IF is_icon_definition(svg) THEN {Did(FALSE, FALSE, FALSE, FALSE)}
            ELSE IF fix_svg_dimensions(svg).raised
                 THEN OnException(use_inkscape_fallback, FALSE)
            ELSE {Did(TRUE, TRUE, TRUE, FALSE)} \cup OnException(use_inkscape_fallback, TRUE)
    IN  imported \cup OnException(use_inkscape_fallback, FALSE)

NoOutcome == Did(FALSE, FALSE, FALSE, FALSE)

SvgIdle == sc_svg = <<>> /\ sc_pc = "idle" /\ sc_out = NoOutcome

ConvertSvgToPng ==
    /\ sc_pc = "input"
    /\ \E fallback \in BOOLEAN :
          sc_out' \in convert_svg_to_png(sc_svg, fallback)
    /\ sc_pc' = "returned"
    /\ UNCHANGED sc_svg
    /\ UNCHANGED <<globVars, detectVars, emojiVars,
                   imageVars, convVars, mdVars, procVars, runVars>>

(***************************************************************************)
(* converters/image_converter.py: the conversion cache                     *)
(***************************************************************************)
\* hashlib.md5(content).hexdigest(): a name that only the content decides.
Md5(content) == <<"md5", content.w, content.h, content.vb, content.icon, content.wellformed>>

NoName == <<>>

\* Local image paths: two SVG files, one raster file, one path with no file.
SvgFiles == {"a.svg", "b.svg"}
ImagePaths == SvgFiles \cup {"pic.png", "gone.svg"}
PathExists(path) == path \in SvgFiles \cup {"pic.png"}
IsSvgSuffix(path) == path \in SvgFiles \cup {"gone.svg"}

\* The contents the files and the inline SVG blocks hold.
PlainSvg == [w |-> "pos", h |-> "pos", vb |-> "absent", icon |-> FALSE, wellformed |-> TRUE]
CacheContents ==
    { PlainSvg,
      [w |-> "absent", h |-> "absent", vb |-> "pos", icon |-> FALSE, wellformed |-> TRUE],
      [w |-> "pos", h |-> "pos", vb |-> "absent", icon |-> FALSE, wellformed |-> FALSE] }

\* Return values: "images/<name>", "<name>" alone, str(image_path), None.
ImagesRel(name) == [k |-> "images", name |-> name]
PngName(name) == [k |-> "name", name |-> name]
PathStr(path) == [k |-> "path", name |-> <<path>>]
NoPng == [k |-> "none", name |-> NoName]

IsCacheName(ret) == ret.k \in {"images", "name"}

\* png_path.exists()
PngExists_Never(disk, name) == FALSE

PngExists(disk, name) == name \in disk

RasterRuns(out) == (IF out.cairo THEN 1 ELSE 0) + (IF out.ink THEN 1 ELSE 0)

NoConversion ==
    [fn |-> "none", hasContent |-> FALSE, content |-> PlainSvg, ret |-> NoPng,
     raster |-> 0, prior |-> FALSE]

ImageIdle ==
    /\ sv_files = <<>>
    /\ sv_cache = <<>>
    /\ sv_disk = {}
    /\ sv_last = NoConversion
    /\ sv_firstName = <<>>

\* The record of a call that had the content in hand.
Converted(fn, content, ret, raster) ==
    /\ sv_last' = [fn |-> fn, hasContent |-> TRUE, content |-> content, ret |-> ret,
                   raster |-> raster, prior |-> sv_firstName[content] # NoName]
    /\ sv_firstName' = IF IsCacheName(ret) /\ sv_firstName[content] = NoName
                       THEN [sv_firstName EXCEPT ![content] = ret.name]
                       ELSE sv_firstName

\* convert_image_to_png: no such file, not an SVG, or the file cannot be read.
ConvertImageNoContent(path) ==
    /\ ~PathExists(path) \/ ~IsSvgSuffix(path)
       \/ (path \in SvgFiles /\ sv_cache[path] = NoPng)
    /\ sv_last' = [NoConversion EXCEPT !.fn = "convert_image_to_png", !.ret = PathStr(path)]
    /\ UNCHANGED <<sv_files, sv_cache, sv_disk, sv_firstName>>
    /\ UNCHANGED <<globVars, detectVars, emojiVars,
                   svgVars, convVars, mdVars, procVars, runVars>>

\* convert_image_to_png: the path is in _conversion_cache.
ConvertImageCached(path) ==
    /\ path \in SvgFiles
    /\ sv_cache[path] # NoPng
    /\ Converted("convert_image_to_png", sv_files[path], sv_cache[path], 0)
    /\ UNCHANGED <<sv_files, sv_cache, sv_disk>>
    /\ UNCHANGED <<globVars, detectVars, emojiVars,
                   svgVars, convVars, mdVars, procVars, runVars>>

\* convert_image_to_png: <hash>.png is already in the cache directory.
ConvertImageOnDisk(path) ==
    LET name == Md5(sv_files[path])
    IN  /\ path \in SvgFiles
        /\ sv_cache[path] = NoPng
        /\ PngExists(sv_disk, name)
        /\ sv_cache' = [sv_cache EXCEPT ![path] = ImagesRel(name)]
        /\ Converted("convert_image_to_png", sv_files[path], ImagesRel(name), 0)
        /\ UNCHANGED <<sv_files, sv_disk>>
        /\ UNCHANGED <<globVars, detectVars, emojiVars,
                       svgVars, convVars, mdVars, procVars, runVars>>

\* convert_image_to_png: the SVG is converted now.
ConvertImageNow(path) ==
    LET content == sv_files[path]
        name == Md5(content)
    IN  /\ path \in SvgFiles
        /\ sv_cache[path] = NoPng
        /\ ~PngExists(sv_disk, name)
        /\ \E out \in convert_svg_to_png(content, TRUE) :
              /\ sv_disk' = IF out.wrote THEN sv_disk \cup {name} ELSE sv_disk
              /\ sv_cache' = IF out.ret THEN [sv_cache EXCEPT ![path] = ImagesRel(name)]
                             ELSE sv_cache
              /\ Converted("convert_image_to_png", content,
                           IF out.ret THEN ImagesRel(name) ELSE PathStr(path),
                           RasterRuns(out))
        /\ UNCHANGED sv_files
        /\ UNCHANGED <<globVars, detectVars, emojiVars,
                       svgVars, convVars, mdVars, procVars, runVars>>

\* convert_svg_content_to_png: <hash>.png is already in the cache directory.
ConvertContentOnDisk(content) ==
    /\ PngExists(sv_disk, Md5(content))
    /\ Converted("convert_svg_content_to_png", content, PngName(Md5(content)), 0)
    /\ UNCHANGED <<sv_files, sv_cache, sv_disk>>
    /\ UNCHANGED <<globVars, detectVars, emojiVars,
                   svgVars, convVars, mdVars, procVars, runVars>>

\* convert_svg_content_to_png: the SVG is converted now.
ConvertContentNow(content) ==
    LET name == Md5(content)
    IN  /\ ~PngExists(sv_disk, name)
        /\ \E out \in convert_svg_to_png(content, TRUE) :
              /\ sv_disk' = IF out.wrote THEN sv_disk \cup {name} ELSE sv_disk
              /\ Converted("convert_svg_content_to_png", content,
                           IF out.ret THEN PngName(name) ELSE NoPng, RasterRuns(out))
        /\ UNCHANGED <<sv_files, sv_cache>>
        /\ UNCHANGED <<globVars, detectVars, emojiVars,
                       svgVars, convVars, mdVars, procVars, runVars>>

\* Between two calls of one run the file at path is rewritten with another
\* content; _conversion_cache, keyed by str(image_path), is not told.
EditSvgFile(path, content) ==
    /\ path \in SvgFiles
    /\ sv_files # <<>>
    /\ content # sv_files[path]
    /\ sv_files' = [sv_files EXCEPT ![path] = content]
    /\ UNCHANGED <<sv_cache, sv_disk, sv_last, sv_firstName>>
    /\ UNCHANGED <<globVars, detectVars, emojiVars,
                   svgVars, convVars, mdVars, procVars, runVars>>

(***************************************************************************)
(* converter.py: convert() and _generate_markdown                          *)
(***************************************************************************)
MaxFiles == 3

\* A file of the repository.  rel: its path below the repository root;
\* utf8: its name can be encoded as UTF-8 (git stores names as bytes; one
\* that cannot is read as a lone surrogate); outside: it is a symbolic link
\* to a file outside the root; kind: what its name selects in
\* _process_single_file.
RepoFile(rel, utf8, outside, kind) ==
    [rel |-> rel, utf8 |-> utf8, outside |-> outside, kind |-> kind]

NoFile == RepoFile(<<>>, TRUE, FALSE, "other")

CandidateFiles ==
    { RepoFile(<<"B.py">>, TRUE, FALSE, "code"),
      RepoFile(<<"a.md">>, TRUE, FALSE, "md"),
      RepoFile(<<"a", "m.py">>, TRUE, FALSE, "code"),
      RepoFile(<<"link.py">>, TRUE, TRUE, "code"),
      RepoFile(<<"caf_.py">>, FALSE, FALSE, "code"),
      RepoFile(<<"logo.png">>, TRUE, FALSE, "image"),
      RepoFile(<<".git", "config">>, TRUE, FALSE, "other"),
      RepoFile(<<".cursorrules">>, TRUE, FALSE, "cursorrules") }

Repos == {r \in SUBSET CandidateFiles : Cardinality(r) <= MaxFiles}

\* Where a link outside the root leads.
OutsideTarget == <<"etc", "secret.py">>

\* Every path segment in use, in code-point order (str comparison).
SegOrder ==
    <<".cache", ".cursorrules", ".git", "B.py", "a", "a.md", "caf_.py", "config",
      "etc", "link.py", "logo.png", "m.py", "repo", "secret.py", "ws">>

\* part.startswith(".")
StartsWithDot(seg) == seg \in {".cache", ".cursorrules", ".git"}

\* Path.__lt__: the parts compared as lists of strings.
RECURSIVE PartsLess(_, _)
PartsLess(p, q) ==
    IF q = <<>> THEN FALSE
    ELSE IF p = <<>> THEN TRUE
    ELSE IF Head(p) = Head(q) THEN PartsLess(Tail(p), Tail(q))
    ELSE LET rank(seg) == CHOOSE i \in DOMAIN SegOrder : SegOrder[i] = seg
         IN  rank(Head(p)) < rank(Head(q))

\* file_path.parts of the absolute path that rglob yields.
Parts(repo_path, file) == repo_path \o file.rel

RECURSIVE SortedInsert(_, _, _)
SortedInsert(repo_path, file, seq) ==
    IF seq = <<>> THEN <<file>>
    ELSE IF PartsLess(Parts(repo_path, file), Parts(repo_path, Head(seq)))
         THEN <<file>> \o seq
         ELSE <<Head(seq)>> \o SortedInsert(repo_path, file, Tail(seq))

sorted_AsFound(repo_path, seq) == seq

\* sorted(self.repo_path.rglob("*"))
RECURSIVE sorted(_, _)
sorted(repo_path, seq) ==
    IF seq = <<>> THEN <<>>
    ELSE SortedInsert(repo_path, Head(seq), sorted(repo_path, Tail(seq)))

\* The orders in which rglob can yield the files of a directory tree.
RECURSIVE Enumerations(_)
Enumerations(S) ==
    IF S = {} THEN {<<>>}
    ELSE UNION {{<<x>> \o t : t \in Enumerations(S \ {x})} : x \in S}

AllowedDotfiles == {".cursorrules", ".gitignore", ".env.example"}

\* The body of the loop of _collect_files: is the file appended?
Collects(repo_path, file) ==
    \/ file.rel[Len(file.rel)] \in AllowedDotfiles
    \/ \A i \in DOMAIN Parts(repo_path, file) : ~StartsWithDot(Parts(repo_path, file)[i])

RECURSIVE SelectCollected(_, _)
SelectCollected(repo_path, seq) ==
    IF seq = <<>> THEN <<>>
    ELSE (IF Collects(repo_path, Head(seq)) THEN <<Head(seq)>> ELSE <<>>)
         \o SelectCollected(repo_path, Tail(seq))

collect_files(repo_path, found) == SelectCollected(repo_path, sorted(repo_path, found))

\* DirectoryTreeGenerator._build_tree: the entries it lists (no dot names but
\* the three allowed ones).
TreeLists(file) ==
    \A i \in DOMAIN file.rel : StartsWithDot(file.rel[i]) => file.rel[i] \in AllowedDotfiles

\* out_file.write of a text holding the name of a file: a name that is not
\* UTF-8 raises UnicodeEncodeError.
WriteRaises(files) == \E file \in files : ~file.utf8

\* _process_single_file: "block" (a section of Markdown), "empty" (the file
\* has no section: image, unknown type), or "swallowed" (reading, decoding or
\* transforming raised inside _process_*_file, which returns "").
BlockKinds == {"code", "md", "cursorrules"}
process_single_file(file) ==
    IF file.kind \in BlockKinds THEN {"block", "swallowed"} ELSE {"empty"}

LoopExcept_Reraise(file) == "raise"

\* except Exception in the loop of _generate_markdown.
LoopExcept(file) == "continue"

Entry(k, file) == [k |-> k, file |-> file]

ConvIdle ==
    /\ cv_pc = "idle"
    /\ cv_repo_path = <<>>
    /\ cv_repo = {}
    /\ cv_cfg = <<>>
    /\ cv_found = <<>>
    /\ cv_files = <<>>
    /\ cv_i = 0
    /\ cv_doc = <<>>
    /\ cv_failed = {}
    /\ cv_cause = "none"

\* An exception reaches the except clause of convert().
Abort(cause) ==
    /\ cv_pc' = "error"
    /\ cv_cause' = cause

\* Step 1 of convert(): _clone_or_update_repository, which may raise.
CloneOrUpdateRepository ==
    /\ cv_pc = "start"
    /\ \/ cv_pc' = "title" /\ UNCHANGED cv_cause
       \/ Abort("clone")
    /\ UNCHANGED <<cv_repo_path, cv_repo, cv_cfg, cv_found, cv_files, cv_i, cv_doc, cv_failed>>
    /\ UNCHANGED <<globVars, detectVars, emojiVars,
                   svgVars, imageVars, mdVars, procVars, runVars>>

\* _generate_markdown: the title line.
WriteTitle ==
    /\ cv_pc = "title"
    /\ cv_doc' = <<Entry("title", NoFile)>>
    /\ cv_pc' = "tree"
    /\ UNCHANGED <<cv_repo_path, cv_repo, cv_cfg, cv_found, cv_files, cv_i, cv_failed, cv_cause>>
    /\ UNCHANGED <<globVars, detectVars, emojiVars,
                   svgVars, imageVars, mdVars, procVars, runVars>>

\* _generate_markdown: the directory tree, outside any try.
GenerateTree ==
    /\ cv_pc = "tree"
    /\ IF ~cv_cfg.include_tree
       THEN cv_pc' = "stats" /\ UNCHANGED <<cv_doc, cv_cause>>
       ELSE IF WriteRaises({file \in cv_repo : TreeLists(file)})
            THEN Abort("tree") /\ UNCHANGED cv_doc
            ELSE /\ cv_doc' = Append(cv_doc, Entry("tree", NoFile))
                 /\ cv_pc' = "stats"
                 /\ UNCHANGED cv_cause
    /\ UNCHANGED <<cv_repo_path, cv_repo, cv_cfg, cv_found, cv_files, cv_i, cv_failed>>
    /\ UNCHANGED <<globVars, detectVars, emojiVars,
                   svgVars, imageVars, mdVars, procVars, runVars>>

\* _generate_markdown: the statistics, outside any try.  The report holds
\* counts and extensions, no file name.
GenerateStats ==
    /\ cv_pc = "stats"
    /\ cv_doc' = IF cv_cfg.include_stats THEN Append(cv_doc, Entry("stats", NoFile))
                 ELSE cv_doc
    /\ cv_pc' = "collect"
    /\ UNCHANGED <<cv_repo_path, cv_repo, cv_cfg, cv_found, cv_files, cv_i, cv_failed, cv_cause>>
    /\ UNCHANGED <<globVars, detectVars, emojiVars,
                   svgVars, imageVars, mdVars, procVars, runVars>>

\* _generate_markdown: all_files = self._collect_files()
CollectFiles ==
    /\ cv_pc = "collect"
    /\ \E found \in Enumerations(cv_repo) :
          /\ cv_found' = found
          /\ cv_files' = collect_files(cv_repo_path, found)
    /\ cv_i' = 1
    /\ cv_pc' = "files"
    /\ UNCHANGED <<cv_repo_path, cv_repo, cv_cfg, cv_doc, cv_failed, cv_cause>>
    /\ UNCHANGED <<globVars, detectVars, emojiVars,
                   svgVars, imageVars, mdVars, procVars, runVars>>

\* _generate_markdown: one iteration of the loop over all_files.
ProcessSingleFile ==
    /\ cv_pc = "files"
    /\ cv_i <= Len(cv_files)
    /\ LET file == cv_files[cv_i]
       IN  \E result \in process_single_file(file) :
              IF result = "block" /\ ~WriteRaises({file})
              THEN /\ cv_doc' = Append(cv_doc, Entry("file", file))
                   /\ cv_i' = cv_i + 1
                   /\ UNCHANGED <<cv_pc, cv_failed, cv_cause>>
              ELSE IF result = "block" /\ LoopExcept(file) = "raise"
              THEN /\ Abort("file")
                   /\ UNCHANGED <<cv_doc, cv_i, cv_failed>>
              ELSE /\ cv_failed' = IF result = "empty" THEN cv_failed
                                   ELSE cv_failed \cup {file}
                   /\ cv_i' = cv_i + 1
                   /\ UNCHANGED <<cv_pc, cv_doc, cv_cause>>
    /\ UNCHANGED <<cv_repo_path, cv_repo, cv_cfg, cv_found, cv_files>>
    /\ UNCHANGED <<globVars, detectVars, emojiVars,
                   svgVars, imageVars, mdVars, procVars, runVars>>

\* _generate_markdown: the final scrub of remote images, in its own try; it
\* removes image references and no section.
FinalScrub ==
    /\ cv_pc = "files"
    /\ cv_i > Len(cv_files)
    /\ cv_pc' = "config"
    /\ UNCHANGED <<cv_repo_path, cv_repo, cv_cfg, cv_found, cv_files, cv_i, cv_doc,
                   cv_failed, cv_cause>>
    /\ UNCHANGED <<globVars, detectVars, emojiVars,
                   svgVars, imageVars, mdVars, procVars, runVars>>

\* Step 3 of convert(): generate_pandoc_config.
GeneratePandocConfig ==
    /\ cv_pc = "config"
    /\ cv_pc' = "pandoc"
    /\ UNCHANGED <<cv_repo_path, cv_repo, cv_cfg, cv_found, cv_files, cv_i, cv_doc,
                   cv_failed, cv_cause>>
    /\ UNCHANGED <<globVars, detectVars, emojiVars,
                   svgVars, imageVars, mdVars, procVars, runVars>>

\* Step 4 of convert(): _generate_pdf returns the PDF, or Pandoc exits
\* non-zero, times out or leaves no PDF.
GeneratePdf ==
    /\ cv_pc = "pandoc"
    /\ \/ cv_pc' = "done" /\ UNCHANGED cv_cause
       \/ Abort("pandoc")
    /\ UNCHANGED <<cv_repo_path, cv_repo, cv_cfg, cv_found, cv_files, cv_i, cv_doc, cv_failed>>
    /\ UNCHANGED <<globVars, detectVars, emojiVars,
                   svgVars, imageVars, mdVars, procVars, runVars>>

(***************************************************************************)
(* processors/markdown_processor.py: the image passes of                   *)
(* process_markdown_content                                                *)
(***************************************************************************)
\* A Markdown text is modelled by its image references, each a paragraph of
\* its own, and by its reference definitions.  The regular expressions of
\* the passes are modelled by the references they match.
MaxImages == 2

RemoteUrl == "https://h/a.png"
LocalUrl == "pic.png"
NormalUrl == "images/pic.png"
CachedUrl == "images/0cc1.png"
NoUrl == ""

\* form: "inline" ![alt](url), "reference" ![alt][ref], "html" <img src="url">,
\* "gone" (replaced by the empty string).
\* style of a reference: "full" ![alt][ref], "collapsed" ![alt][],
\* "shortcut" ![alt].
\* title of an inline image: "none", "dq" ("T") or "sq" ('T').
\* multiline: the alt text holds a line break.
ImageRef(form, style, alt, ref, url, title, multiline) ==
    [form |-> form, style |-> style, alt |-> alt, ref |-> ref, url |-> url,
     title |-> title, multiline |-> multiline]

Gone == ImageRef("gone", "", "", "", NoUrl, "none", FALSE)
Inline(alt, url, title) == ImageRef("inline", "", alt, "", url, title, FALSE)

Titles == {"none", "dq", "sq"}

InputImages ==
    {ImageRef("inline", "", "logo", "", RemoteUrl, t, m) : t \in Titles, m \in BOOLEAN}
    \cup {Inline("logo", LocalUrl, t) : t \in Titles}
    \cup {ImageRef("html", "", "logo", "", u, "none", FALSE) : u \in {RemoteUrl, LocalUrl}}
    \cup {ImageRef("reference", "full", "x", r, NoUrl, "none", FALSE) : r \in {"logo", "Logo"}}
    \cup {ImageRef("reference", s, "logo", "", NoUrl, "none", FALSE) :
             s \in {"collapsed", "shortcut"}}

\* url.startswith(("http://", "https://"))
IsRemote(url) == url = RemoteUrl

\* _extract_reference_links: the definition lines its expression matches,
\* from the label to the end of the line.
extract_reference_links(defs) == {d \in defs : d.title \in {"none", "dq"}}

\* image_converter.download_remote_image(url): a path under images/, or None.
download_remote_image(net, url) == IF net THEN CachedUrl ELSE NoUrl

\* f"images/{img_path.name}"
Normalized(url) == IF url = LocalUrl THEN NormalUrl ELSE url

\* _resolve_image_path(...) and img_path.exists(); junk: the path text holds
\* more than the path (a title that the expression took for part of it).
Resolves(existing, url, junk) == ~junk /\ url \in existing

\* process_ref_image, on a reference that !\[(.*?)\]\[(.*?)\] matches.
process_ref_image(image, reference_links, net, existing) ==
    LET ref_id == image.ref
    IN  IF ~\E d \in reference_links : d.label = ref_id THEN image
        ELSE LET ref == CHOOSE d \in reference_links : d.label = ref_id
                 title == IF ref.title = "dq" THEN "dq" ELSE "none"
             IN  IF IsRemote(ref.url)
                 THEN IF download_remote_image(net, ref.url) # NoUrl
                      THEN Inline(image.alt, download_remote_image(net, ref.url), title)
                      ELSE Gone
                 ELSE IF Resolves(existing, ref.url, FALSE)
                      THEN Inline(image.alt, Normalized(ref.url), title)
                      ELSE Inline(image.alt, ref.url, title)

process_reference_images(image, reference_links, net, existing) ==
    IF image.form = "reference" /\ image.style \in {"full", "collapsed"}
    THEN process_ref_image(image, reference_links, net, existing)
    ELSE image

\* process_md_image, on a match with this alt, path and title.
process_md_image(alt, url, junk, title, net, existing) ==
    IF IsRemote(url)
    THEN IF download_remote_image(net, url) # NoUrl
         THEN Inline(alt, download_remote_image(net, url), title)
         ELSE Gone
    ELSE IF Resolves(existing, url, junk)
         THEN Inline(alt, Normalized(url), title)
         ELSE Gone

\* The first substitution of _process_inline_images: !\[(.*?)\]\((.*?)\s+"(.*?)"\)
WithTitle(image, net, existing) ==
    IF image.form = "inline" /\ ~image.multiline /\ image.title = "dq"
    THEN process_md_image(image.alt, image.url, FALSE, "dq", net, existing)
    ELSE image

\* The second substitution: !\[(.*?)\]\((.*?)\), whose path group takes a
\* title with it.
WithoutTitle(image, net, existing) ==
    IF image.form = "inline" /\ ~image.multiline
    THEN process_md_image(image.alt, image.url, image.title # "none", "none", net, existing)
    ELSE image

process_inline_images(image, net, existing) ==
    WithoutTitle(WithTitle(image, net, existing), net, existing)

\* process_html_image, on a tag that <img\s+[^>]+> matches.
process_html_images(image, net, existing) ==
    IF image.form = "html"
    THEN process_md_image(image.alt, image.url, FALSE, "none", net, existing)
    ELSE image

\* _remove_residual_remote_images: !\[[^\]]*\]\((https?://[^\s)]+)(\s+\"[^\"]*\")?\)
\* and <img[^>]+src=\"https?://[^\"]+\"[^>]*>
remove_residual_remote_images(image) ==
    IF /\ image.form = "inline"
       /\ IsRemote(image.url)
       /\ image.title \in {"none", "dq"}
    THEN Gone
    ELSE IF image.form = "html" /\ IsRemote(image.url) THEN Gone
    ELSE image

MdIdle ==
    /\ md_pc = "idle"
    /\ md_src = <<>>
    /\ md_defs = {}
    /\ md_net = FALSE
    /\ md_existing = {}
    /\ md_doc = <<>>

ProcessReferenceImages ==
    /\ md_pc = "reference"
    /\ md_doc' = [i \in DOMAIN md_doc |->
                    process_reference_images(md_doc[i], extract_reference_links(md_defs),
                                             md_net, md_existing)]
    /\ md_pc' = "inline"
    /\ UNCHANGED <<md_src, md_defs, md_net, md_existing>>
    /\ UNCHANGED <<globVars, detectVars, emojiVars,
                   svgVars, imageVars, convVars, procVars, runVars>>

ProcessInlineImages ==
    /\ md_pc = "inline"
    /\ md_doc' = [i \in DOMAIN md_doc |-> process_inline_images(md_doc[i], md_net, md_existing)]
    /\ md_pc' = "html"
    /\ UNCHANGED <<md_src, md_defs, md_net, md_existing>>
    /\ UNCHANGED <<globVars, detectVars, emojiVars,
                   svgVars, imageVars, convVars, procVars, runVars>>

ProcessHtmlImages ==
    /\ md_pc = "html"
    /\ md_doc' = [i \in DOMAIN md_doc |-> process_html_images(md_doc[i], md_net, md_existing)]
    /\ md_pc' = "residual"
    /\ UNCHANGED <<md_src, md_defs, md_net, md_existing>>
    /\ UNCHANGED <<globVars, detectVars, emojiVars,
                   svgVars, imageVars, convVars, procVars, runVars>>

RemoveResidualRemoteImages ==
    /\ md_pc = "residual"
    /\ md_doc' = [i \in DOMAIN md_doc |-> remove_residual_remote_images(md_doc[i])]
    /\ md_pc' = "done"
    /\ UNCHANGED <<md_src, md_defs, md_net, md_existing>>
    /\ UNCHANGED <<globVars, detectVars, emojiVars,
                   svgVars, imageVars, convVars, procVars, runVars>>

(***************************************************************************)
(* processors and converters: functions of their arguments                 *)
(***************************************************************************)
ProcIdle == p_fn = "none" /\ p_args = <<>> /\ p_pc = "idle" /\ p_ret = <<>>

\* One call of the function fn: it returns value.
Returns(fn, value) ==
    /\ p_pc = "input"
    /\ p_fn = fn
    /\ p_ret' = value
    /\ p_pc' = "returned"
    /\ UNCHANGED <<p_fn, p_args>>
    /\ UNCHANGED <<globVars, detectVars, emojiVars, svgVars,
                   imageVars, convVars, mdVars, runVars>>

(***************************************************************************)
(* converters/emoji_handler.py: replace_emoji_in_text                      *)
(***************************************************************************)
\* The sequences ensure_emoji_png may resolve; the file of a sequence is
\* <sequence>.png and is written here as the sequence.
Resolvable == {<<"1f468">>, <<"2764", "fe0f">>}

\* replace_match: the directive for a resolved emoji, the emoji itself
\* otherwise.  The form "latex" is \emojiimg{f}; in_code is not read.
replace_match(emoji, in_code, resolved) ==
    IF emoji \in resolved
    THEN [form |-> "latex", arg |-> emoji]
    ELSE [form |-> "text", arg |-> emoji]

\* pattern.sub(replace_match, text): the pieces of the result, left to right.
replace_emoji_in_text(text, in_code, resolved) ==
    LET ms == EmojiMatches(text, 1)
        RECURSIVE Sub(_, _)
        Sub(pos, k) ==
            IF pos > Len(text) THEN <<>>
            ELSE IF k <= Len(ms) /\ ms[k].start = pos
                 THEN <<replace_match(Group0(text, ms[k]), in_code, resolved)>>
                          \o Sub(ms[k].end + 1, k + 1)
            ELSE <<[form |-> "text", arg |-> <<text[pos]>>]>> \o Sub(pos + 1, k)
    IN  Sub(1, 1)

\* replace_emoji_in_code(text) is the call with in_code = TRUE.
ReplaceEmojiInText ==
    Returns("replace_emoji_in_text",
            replace_emoji_in_text(p_args.text, p_args.in_code, p_args.resolved))

(***************************************************************************)
(* processors/code_processor.py: extract_header_comment                    *)
(***************************************************************************)
MaxHeaderLines == 4

\* Text is a sequence of characters; "x" is any character of code or comment
\* text, and the markers "/*", "*/", "//", "--" are written as one character.
\* str.splitlines()
RECURSIVE SplitLines(_, _)
SplitLines(s, cur) ==
    IF s = <<>> THEN (IF cur = <<>> THEN <<>> ELSE <<cur>>)
    ELSE IF Head(s) = "\n" THEN <<cur>> \o SplitLines(Tail(s), <<>>)
    ELSE SplitLines(Tail(s), Append(cur, Head(s)))

\* "\n".join(lines)
RECURSIVE JoinLines(_)
JoinLines(lines) ==
    IF lines = <<>> THEN <<>>
    ELSE IF Len(lines) = 1 THEN lines[1]
    ELSE lines[1] \o <<"\n">> \o JoinLines(Tail(lines))

Whitespace == {" ", "\n"}

\* strip_line_comment(s, marker)
strip_line_comment(s, marker) ==
    LET t == LStrip(s, Whitespace)
    IN  IF t # <<>> /\ Head(t) = marker THEN LStrip(Tail(t), Whitespace) ELSE s

C_LIKE_EXTENSIONS == {".js"}
SHARP_EXTENSIONS == {".py"}
SQL_EXTENSIONS == {".sql"}

\* Returns (header_text, remaining_code).
extract_header_comment(content, file_extension) ==
    LET lines == SplitLines(content, <<>>)
        n == Len(lines)
        \* lines[idx].lstrip().startswith(prefix), idx counted from 1
        starts_with(idx, prefix) ==
            idx <= n /\ LStrip(lines[idx], Whitespace) # <<>>
                     /\ Head(LStrip(lines[idx], Whitespace)) = prefix
        blank(idx) == idx <= n /\ LStrip(lines[idx], Whitespace) = <<>>
        \* while i < n and lines[i].lstrip().startswith(marker): i += 1
        RECURSIVE RunEnd(_, _)
        RunEnd(i, marker) == IF starts_with(i, marker) THEN RunEnd(i + 1, marker) ELSE i
        Run(from, to, marker) ==
            [k \in 1..(to - from) |-> strip_line_comment(lines[from + k - 1], marker)]
        \* the /* */ loop: buf and the index after the line that closes the block
        Find(line) == IF \E k \in 1..Len(line) : line[k] = "*/"
                      THEN CHOOSE k \in 1..Len(line) :
                               line[k] = "*/" /\ \A j \in 1..(k - 1) : line[j] # "*/"
                      ELSE 0
        RECURSIVE Block(_, _, _)
        Block(i, line, buf) ==
            IF i > n THEN [buf |-> buf, i |-> i]
            ELSE IF Find(line) # 0
                 THEN [buf |-> Append(buf, SubSeq(line, 1, Find(line) - 1)), i |-> i + 1]
            ELSE Block(i + 1, IF i + 1 <= n THEN lines[i + 1] ELSE line, Append(buf, line))
        Result(header_chunks, i) ==
            LET j == IF blank(i) THEN i + 1 ELSE i
            IN  [header |-> RStrip(LStrip(JoinLines([k \in 1..Len(header_chunks) |->
                                       RStrip(header_chunks[k], Whitespace)]),
                                   Whitespace), Whitespace),
                 remaining |-> JoinLines(SubSeq(lines, j, n))]
        None == [header |-> <<>>, remaining |-> content]
        LineComments(marker) ==
            IF starts_with(1, marker)
            THEN Result(Run(1, RunEnd(1, marker), marker), RunEnd(1, marker))
            ELSE None
    IN  IF lines = <<>> \/ blank(1) THEN None
        ELSE IF file_extension \in C_LIKE_EXTENSIONS
        THEN IF starts_with(1, "/*")
             THEN LET b == Block(1, Tail(LStrip(lines[1], Whitespace)), <<>>)
                      e == RunEnd(b.i, "//")
                      i == IF blank(e) THEN e + 1 ELSE e
                  IN  Result(<<JoinLines(b.buf)>> \o Run(b.i, e, "//"), i)
             ELSE LineComments("//")
        ELSE IF file_extension \in SHARP_EXTENSIONS THEN LineComments("#")
        ELSE IF file_extension \in SQL_EXTENSIONS THEN LineComments("--")
        ELSE None

ExtractHeaderComment ==
    Returns("extract_header_comment",
            extract_header_comment(p_args.content, p_args.file_extension))

\* The lines a file of each extension is made of here.
HeaderLines(file_extension) ==
    IF file_extension = ".py"
    THEN {<<"#", " ", "x">>, <<" ", "#", "x", " ">>, <<>>, <<" ">>, <<"x">>}
    ELSE IF file_extension = ".js"
    THEN {<<"/*", "x">>, <<" ", "x", "*/", "x">>, <<"/*", "x", "*/">>, <<"//", " ", "x">>,
          <<>>, <<"x">>}
    ELSE IF file_extension = ".sql" THEN {<<"--", "x">>, <<>>, <<"x">>}
    ELSE {<<"#", "x">>, <<"x">>}

\* The contents: up to MaxHeaderLines lines, with or without a final newline.
HeaderContents(file_extension) ==
    {JoinLines(lines) \o nl :
        lines \in SeqsUpTo(HeaderLines(file_extension), MaxHeaderLines),
        nl \in {<<>>, <<"\n">>}}

(***************************************************************************)
(* processors/code_processor.py: process_code_file, _split_large_file      *)
(***************************************************************************)
MaxBodyLines == 1700

MAX_LINES_BEFORE_SPLIT == 1000
CHUNK_SIZE_LINES == 800

\* code_transformed.splitlines(): a body of n lines; a line is written as
\* its number, so that no two lines are alike.
BodyLines(n) == [k \in 1..n |-> k]

Min(a, b) == IF a <= b THEN a ELSE b

\* A part is its header (part i+1 of num_parts, lines start+1 to end) and
\* part_content; the fence around part_content is not part of it.
split_large_file_DropTail(lines) ==
    LET total_lines == Len(lines)
        num_parts == total_lines \div CHUNK_SIZE_LINES
    IN  [i \in 1..num_parts |->
            LET start == (i - 1) * CHUNK_SIZE_LINES
                end == Min(i * CHUNK_SIZE_LINES, total_lines)
            IN  [part |-> i, of |-> num_parts, first |-> start + 1, last |-> end,
                 body |-> SubSeq(lines, start + 1, end)]]

split_large_file(lines) ==
    LET total_lines == Len(lines)
        num_parts == (total_lines + CHUNK_SIZE_LINES - 1) \div CHUNK_SIZE_LINES
    IN  [i \in 1..num_parts |->
            LET start == (i - 1) * CHUNK_SIZE_LINES
                end == Min(i * CHUNK_SIZE_LINES, total_lines)
            IN  [part |-> i, of |-> num_parts, first |-> start + 1, last |-> end,
                 body |-> SubSeq(lines, start + 1, end)]]

\* Steps 6 and 7 of process_code_file on the lines of code_transformed:
\* the parts, the first 1000 lines and a notice, or one block.
handle_large_file(lines, split_large_files) ==
    IF Len(lines) > MAX_LINES_BEFORE_SPLIT
    THEN IF split_large_files
         THEN [kind |-> "split", parts |-> split_large_file(lines)]
         ELSE [kind |-> "truncated",
               parts |-> <<[part |-> 1, of |-> 1, first |-> 1,
                            last |-> MAX_LINES_BEFORE_SPLIT,
                            body |-> SubSeq(lines, 1, MAX_LINES_BEFORE_SPLIT)]>>]
    ELSE [kind |-> "whole",
          parts |-> <<[part |-> 1, of |-> 1, first |-> 1, last |-> Len(lines),
                       body |-> lines]>>]

ProcessCodeFile ==
    Returns("process_code_file",
            handle_large_file(BodyLines(p_args.total_lines), p_args.split_large_files))

(***************************************************************************)
(* processors/file_processor.py: should_ignore                             *)
(***************************************************************************)
\* A path or pattern is a sequence of characters; a run of letters that the
\* patterns never divide ("node_modules", "_helper", ".js") is written as
\* one character; the dot that begins a name is a character of its own.
\* pattern in path_str:
Contains(pattern, path_str) ==
    \E k \in 0..(Len(path_str) - Len(pattern)) :
        SubSeq(path_str, k + 1, k + Len(pattern)) = pattern

\* Path.name, and Path.suffix for the name's last character.
PathName(path_str) ==
    LET parts == SplitSlash(path_str, <<>>) IN parts[Len(parts)]
PathSuffix(path_str) ==
    LET name == PathName(path_str)
    IN  IF Len(name) >= 2 /\ name[Len(name)] \in {".js", ".pyc", ".so", ".md", ".mdx"}
        THEN name[Len(name)] ELSE ""

BINARY_EXTENSIONS == {".pyc", ".so"}

should_ignore(path_str, ignore_patterns) ==
    \/ \E pattern \in ignore_patterns :
           \/ Contains(pattern, path_str)
           \/ PathName(path_str) = pattern
           \/ /\ Contains(<<"*">>, pattern)
              /\ \/ FnMatchCase(PathName(path_str), pattern)
                 \/ FnMatchCase(path_str, pattern)
    \/ PathSuffix(path_str) \in BINARY_EXTENSIONS

ShouldIgnore ==
    Returns("should_ignore", should_ignore(p_args.path, p_args.ignore_patterns))

\* File and directory names, and the ignore patterns set in the configuration.
PathNames ==
    {<<"src">>, <<"node_modules">>, <<"node_modules", "_helper", ".js">>,
     <<"index", ".js">>, <<"a", ".pyc">>, <<".", "git", "ignore">>}
IgnorePatterns == {<<"node_modules">>, <<".", "git">>, <<"*", ".pyc">>}

(***************************************************************************)
(* processors/file_processor.py: collect_files                             *)
(***************************************************************************)
\* sorted(repo_path.rglob("*")), the files only: repository-relative paths
\* in the order of Path comparison.
Listing ==
    << <<".", "claude", "/", ".", "cursorrules">>,
       <<".", "claude", "/", "prompt", ".md">>,
       <<".", "env", ".example">>,
       <<".", "git", "/", "config">>,
       <<".", "git", "ignore">>,
       <<"node_modules", "/", "index", ".js">>,
       <<"src", "/", "index", ".js">> >>

\* The files of a repository that holds the files numbered S of the listing.
RECURSIVE Pick(_, _, _)
Pick(seq, S, k) ==
    IF k > Len(seq) THEN <<>>
    ELSE (IF k \in S THEN <<seq[k]>> ELSE <<>>) \o Pick(seq, S, k + 1)

allowed_hidden ==
    {<<".", "cursorrules">>, <<".", "git", "ignore">>, <<".", "dockerignore">>,
     <<".", "env", ".example">>}

posix_glob_match_any(path, patterns) ==
    \E pat \in patterns : pat # <<>> /\ posix_glob_match(path, pat)

\* FileProcessor.collect_files; unsafe: the files is_safe_path rejects.
FileProcessor_collect_files(repo_path, files, unsafe, include_hidden, include_hidden_paths, ignore_patterns) ==
    LET rel_has_hidden_part(rel_path) ==
            \E k \in DOMAIN SplitSlash(rel_path, <<>>) :
                LET part == SplitSlash(rel_path, <<>>)[k]
                IN  part # <<>> /\ Head(part) = "."
        Kept(rel_path) ==
            /\ include_hidden
               \/ ~(/\ rel_has_hidden_part(rel_path)
                    /\ PathName(rel_path) \notin allowed_hidden
                    /\ ~posix_glob_match_any(rel_path, include_hidden_paths))
            /\ ~should_ignore(repo_path \o <<"/">> \o rel_path, ignore_patterns)
            /\ rel_path \notin unsafe
    IN  SelectSeq(files, Kept)

CollectFilesOfProcessor ==
    Returns("collect_files",
            FileProcessor_collect_files(p_args.repo_path, p_args.files, p_args.unsafe,
                                        p_args.include_hidden,
                                        p_args.include_hidden_paths,
                                        p_args.ignore_patterns))

(***************************************************************************)
(* converter.py: _process_markdown_file                                    *)
(***************************************************************************)
\* The section written for a Markdown file: the fence around its text
\* ("none" for prose) and the text, either the file's content or what
\* process_markdown_content made of it.  raises: reading or processing
\* raised, and the function returned "".
process_markdown_file(rel_path, raises) ==
    IF raises THEN [fence |-> "none", text |-> "none"]
    ELSE IF PathSuffix(rel_path) = ".mdx" THEN [fence |-> "mdx", text |-> "processed"]
    ELSE [fence |-> "none", text |-> "processed"]

ProcessMarkdownFile ==
    Returns("_process_markdown_file", process_markdown_file(p_args.rel_path, p_args.raises))

MarkdownPaths ==
    {<<".", "claude", "/", "prompt", ".md">>, <<".", "claude", "/", "README", ".md">>,
     <<"plugins", "/", "example", ".md">>, <<"docs", "/", "guide", ".md">>,
     <<"docs", "/", "page", ".mdx">>}

\* pdf_settings.raw_markdown_paths and raw_markdown_exclude_paths
RawMarkdownPaths ==
    {<<".", "claude", "/", "*", "*", "/", "*", ".md">>,
     <<"plugins", "/", "*", "*", "/", "*", ".md">>}
RawMarkdownExcludePaths == {<<"*", "*", "/", "README", ".md">>}

(***************************************************************************)
(* processors/markdown_processor.py: _escape_backslash_u_sequences and     *)
(* _hard_wrap_code_blocks                                                  *)
(***************************************************************************)
MaxMdLines == 4

\* str.splitlines() of a text whose only line boundary is "\n": the pieces
\* between the newlines, without a last empty piece.  The same lines as
\* SplitLines, found from the positions of the newlines.
splitlines(s) ==
    LET nl == {i \in 1..Len(s) : s[i] = "\n"}
        nth(k) == CHOOSE i \in nl : Cardinality({j \in nl : j < i}) = k - 1
        n == Cardinality(nl) + (IF s # <<>> /\ s[Len(s)] # "\n" THEN 1 ELSE 0)
    IN  [k \in 1..n |->
            SubSeq(s, IF k = 1 THEN 1 ELSE nth(k - 1) + 1,
                      IF k <= Cardinality(nl) THEN nth(k) - 1 ELSE Len(s))]

\* A line is a sequence of characters, "bt" standing for a backtick.  An
\* info word ("{=latex}", "latex") and the "u" of an escape sequence with
\* its four hex digits ("u1234") are written as one character each; the
\* lines that hold them are far shorter than any wrapping threshold.
\* The run of three or more backticks a fence line begins with (the group
\* fence of the pattern), or <<>> when the line does not begin with one.
FenceOf(ln) ==
    LET n == CHOOSE j \in 0..Len(ln) :
                 /\ \A i \in 1..j : ln[i] = "bt"
                 /\ (j = Len(ln) \/ ln[j + 1] # "bt")
    IN  IF n >= 3 THEN SubSeq(ln, 1, n) ELSE <<>>

\* ln.replace: every backslash of the line is doubled.
EscapeBackslashes(ln) ==
    Flatten([k \in 1..Len(ln) |-> IF ln[k] = "\\" THEN <<"\\", "\\">> ELSE <<ln[k]>>])

\* The list out, one entry per line of the content, and the text returned.
escape_backslash_u_sequences(content) ==
    LET lines == splitlines(content)
        \* ln.split()[0] when ln begins with a fence
        FirstWord(ln) ==
            IF \E k \in 1..Len(ln) : ln[k] = " "
            THEN SubSeq(ln, 1, (CHOOSE k \in 1..Len(ln) :
                                   ln[k] = " " /\ \A i \in 1..(k - 1) : ln[i] # " ") - 1)
            ELSE ln
        RECURSIVE Scan(_, _, _)
        Scan(k, in_code, fence) ==
            IF k > Len(lines) THEN <<>>
            ELSE LET ln == lines[k]
                 IN  IF ~in_code
                     THEN IF FenceOf(ln) # <<>>
                          THEN <<ln>> \o Scan(k + 1, TRUE, FenceOf(ln))
                          ELSE <<ln>> \o Scan(k + 1, FALSE, <<>>)
                     ELSE IF IsPrefix(fence, ln) /\ Len(FirstWord(ln)) >= Len(fence)
                          THEN <<ln>> \o Scan(k + 1, FALSE, <<>>)
                          ELSE <<EscapeBackslashes(ln)>> \o Scan(k + 1, TRUE, fence)
        out == Scan(1, FALSE, <<>>)
    IN  [out |-> out, text |-> JoinLines(out)]

EscapeBackslashUSequences ==
    Returns("_escape_backslash_u_sequences", escape_backslash_u_sequences(p_args.content))

\* src/repo-to-pdf.py, escape_backslash_u_outside_code: the backslash of an
\* escape sequence becomes \textbackslash{} on the lines outside fenced
\* regions; a region closes at a line that starts with its fence.
EscapeU(ln) ==
    Flatten([k \in 1..Len(ln) |->
                IF ln[k] = "\\" /\ k < Len(ln) /\ ln[k + 1] = "u1234"
                THEN <<"\\", "textbackslash{}">> ELSE <<ln[k]>>])

escape_backslash_u_outside_code(md) ==
    LET lines == splitlines(md)
        RECURSIVE Scan(_, _, _)
        Scan(k, in_code, fence) ==
            IF k > Len(lines) THEN <<>>
            ELSE LET ln == lines[k]
                 IN  IF ~in_code
                     THEN IF FenceOf(ln) # <<>>
                          THEN <<ln>> \o Scan(k + 1, TRUE, FenceOf(ln))
                          ELSE <<EscapeU(ln)>> \o Scan(k + 1, FALSE, <<>>)
                     ELSE IF IsPrefix(fence, ln)
                          THEN <<ln>> \o Scan(k + 1, FALSE, <<>>)
                          ELSE <<ln>> \o Scan(k + 1, TRUE, fence)
        out == Scan(1, FALSE, <<>>)
    IN  [out |-> out, text |-> JoinLines(out)]

EscapeBackslashUOutsideCode ==
    Returns("escape_backslash_u_outside_code", escape_backslash_u_outside_code(p_args.content))

hard_wrap_threshold(max_line_length) == IF max_line_length > 40 THEN max_line_length ELSE 40
wrap_width_Unclamped(max_line_length) == (max_line_length * 3) \div 4

\* wrap_width = max(40, min(160, int(self.max_line_length * 0.75)))
wrap_width(max_line_length) ==
    LET w == Min(160, (max_line_length * 3) \div 4) IN IF w > 40 THEN w ELSE 40

\* The slices ln[i : i + wrap_width] for i in range(0, len(ln), wrap_width),
\* joined by newlines.
Wrapped(ln, width) ==
    JoinLines([i \in 1..((Len(ln) + width - 1) \div width) |->
                  SubSeq(ln, (i - 1) * width + 1, Min(i * width, Len(ln)))])

skip_block_Never(info) == FALSE

\* skip_block = "{=latex}" in info or info == "latex", info stripped and
\* lower-cased
skip_block(info) ==
    Contains(<<"{=latex}">>, LowerStr(Strip(info))) \/ LowerStr(Strip(info)) = <<"latex">>

hard_wrap_code_blocks(content, max_line_length) ==
    LET lines == splitlines(content)
        RECURSIVE Scan(_, _, _, _)
        Scan(k, in_code, fence, skip) ==
            IF k > Len(lines) THEN <<>>
            ELSE LET ln == lines[k]
                 IN  IF ~in_code
                     THEN IF FenceOf(ln) # <<>>
                          THEN <<ln>> \o Scan(k + 1, TRUE, FenceOf(ln),
                                              skip_block(SubSeq(ln, Len(FenceOf(ln)) + 1,
                                                                Len(ln))))
                          ELSE <<ln>> \o Scan(k + 1, FALSE, <<>>, FALSE)
                     ELSE IF IsPrefix(fence, ln)
                          THEN <<ln>> \o Scan(k + 1, FALSE, <<>>, FALSE)
                     ELSE IF ~skip /\ Len(ln) > hard_wrap_threshold(max_line_length)
                          THEN <<Wrapped(ln, wrap_width(max_line_length))>>
                                   \o Scan(k + 1, TRUE, fence, skip)
                     ELSE <<ln>> \o Scan(k + 1, TRUE, fence, skip)
        out == Scan(1, FALSE, <<>>, FALSE)
    IN  [out |-> out, text |-> JoinLines(out)]

HardWrapCodeBlocks ==
    Returns("_hard_wrap_code_blocks",
            hard_wrap_code_blocks(p_args.content, p_args.max_line_length))

\* The lines of a Markdown content: fences of three and four backticks, with
\* and without info, a fence line of more than 40 characters, a line of
\* 41 characters, and a short line with a backslash-u escape sequence.
LongLine == [k \in 1..41 |-> "x"]
Fence3 == <<"bt", "bt", "bt">>
MarkdownLines ==
    {Fence3, Fence3 \o <<"bt">>, Fence3 \o <<"{=latex}">>, Fence3 \o <<" ", "latex">>,
     Fence3 \o LongLine, LongLine, <<"\\", "u1234">>}
MarkdownContents == {JoinLines(lines) : lines \in SeqsUpTo(MarkdownLines, MaxMdLines)}

(***************************************************************************)
(* A run's downloads, working copy and images directory                    *)
(***************************************************************************)
MaxRequests == 3

\* Two remote images, one with a raster suffix and one with .svg.
Urls == {"https://h/a.png", "https://h/b.svg"}
UrlEndsWithSvg(url) == url = "https://h/b.svg"
UrlSuffix(url) == IF url = "https://h/b.svg" THEN ".svg" ELSE ".png"

\* hashlib.md5(url.encode()).hexdigest(), and the file <hash><ext>.
UrlHash(url) == <<"md5", url>>
CacheFile(url, ext) == Append(UrlHash(url), ext)

\* What requests.get and raise_for_status give: an exception, or a response
\* with this Content-Type header ("" when it names no known type).
ContentTypes == {"image/png", "image/jpeg", "image/svg+xml", ""}
Responses ==
    {[ok |-> FALSE, content_type |-> ""]}
        \cup {[ok |-> TRUE, content_type |-> c] : c \in ContentTypes}

get_extension_from_content_type(content_type, url) ==
    IF content_type = "image/png" THEN ".png"
    ELSE IF content_type = "image/jpeg" THEN ".jpg"
    ELSE UrlSuffix(url)

\* The files of the cache directory that carry the hash of the URL.
FilesOfUrl(disk, url) == {f \in disk : SubSeq(f, 1, 2) = UrlHash(url)}

DownloadIdle ==
    dl_first = <<>> /\ dl_cache = <<>> /\ dl_disk = {} /\ dl_http = 0 /\ dl_last = <<>>

\* The record of a call: its URL and result, whether a GET was sent, and
\* what was cached for the URL when it began.
Downloaded(url, ret, get) ==
    /\ dl_last' = [url |-> url, ret |-> ret, get |-> get,
                   in_memory |-> dl_cache[url] # NoPng,
                   on_disk |-> FilesOfUrl(dl_disk, url),
                   first |-> dl_first[url]]
    /\ dl_first' = IF dl_first[url] = NoPng /\ ret # NoPng
                   THEN [dl_first EXCEPT ![url] = ret] ELSE dl_first
    /\ dl_http' = IF get THEN dl_http + 1 ELSE dl_http

\* download_remote_image(url): the URL is in _conversion_cache.
DownloadCached(url) ==
    /\ dl_cache # <<>>
    /\ dl_cache[url] # NoPng
    /\ Downloaded(url, dl_cache[url], FALSE)
    /\ UNCHANGED <<dl_cache, dl_disk>>
    /\ UNCHANGED <<globVars, detectVars, emojiVars, svgVars, imageVars, convVars,
                   mdVars, procVars, gitVars, assetVars>>

\* download_remote_image(url): the URL is fetched; response is what the
\* server answers and out what convert_svg_to_png does with an SVG.
DownloadFetched(url, response, out) ==
    LET svg == response.content_type = "image/svg+xml" \/ UrlEndsWithSvg(url)
        ext == IF svg THEN ".png"
               ELSE get_extension_from_content_type(response.content_type, url)
        file == CacheFile(url, ext)
        exists == file \in dl_disk
        saved == response.ok /\ (exists \/ ~svg \/ out.ret)
        ret == IF saved THEN ImagesRel(file) ELSE NoPng
    IN  /\ dl_cache # <<>>
        /\ dl_cache[url] = NoPng
        /\ dl_http < MaxRequests
        /\ dl_disk' = IF response.ok /\ ~exists /\ (~svg \/ out.wrote)
                      THEN dl_disk \cup {file} ELSE dl_disk
        /\ dl_cache' = IF saved THEN [dl_cache EXCEPT ![url] = ret] ELSE dl_cache
        /\ Downloaded(url, ret, TRUE)
        /\ UNCHANGED <<globVars, detectVars, emojiVars, svgVars, imageVars, convVars,
                       mdVars, procVars, gitVars, assetVars>>

DownloadRemoteImage(url) ==
    \/ DownloadCached(url)
    \/ \E response \in Responses, out \in convert_svg_to_png(PlainSvg, TRUE) :
           DownloadFetched(url, response, out)

(***************************************************************************)
(* git/repo_manager.py: clone_or_pull and cleanup                           *)
(***************************************************************************)
MaxCalls == 3

\* What is at workspace_dir / repo_name: nothing ("none"), a complete working
\* copy ("repo"), or what an interrupted clone left behind ("partial").
\* A git operation ends well ("ok"), with git.GitCommandError, or with
\* another exception (an OSError, a decoding error of git's output, ...).
GitOutcomes == {"ok", "GitCommandError", "Exception"}

GitIdle == gt_dir = "none" /\ gt_calls = <<>>

\* One call: what it did, how it ended, and the directory before and after.
Called(did, outcome, after) ==
    /\ Len(gt_calls) < MaxCalls
    /\ gt_calls' = Append(gt_calls, [did |-> did, outcome |-> outcome,
                                     before |-> gt_dir, after |-> after])
    /\ gt_dir' = after
    /\ UNCHANGED <<globVars, detectVars, emojiVars, svgVars, imageVars, convVars,
                   mdVars, procVars, dlVars, assetVars>>

\* _clone_repository: git.Repo.clone_from, which may have written left when
\* it fails; the directory is removed only in the handler of
\* git.GitCommandError.
clone_repository(outcome, left) ==
    IF outcome = "ok" THEN "repo"
    ELSE IF outcome = "GitCommandError" THEN "none"
    ELSE left

\* _pull_latest: fetch and reset --hard; on a partial copy git.Repo or the
\* fetch fails.  The directory stays.
pull_latest(dir, outcome) == dir

\* clone_or_pull: update when repo_dir exists, clone otherwise; every
\* failure leaves as GitOperationError.
CloneOrPull(outcome, left) ==
    IF gt_dir # "none"
    THEN /\ left = gt_dir
         /\ (gt_dir = "partial" => outcome # "ok")
         /\ Called("pull", outcome, pull_latest(gt_dir, outcome))
    ELSE /\ (outcome = "ok" => left = "repo")
         /\ (outcome # "ok" => left \in {"none", "partial"})
         /\ Called("clone", outcome, clone_repository(outcome, left))

\* cleanup(): shutil.rmtree(self.repo_dir, ignore_errors=True)
Cleanup ==
    /\ gt_dir # "none"
    /\ gt_calls # <<>>
    /\ gt_dir' = "none"
    /\ UNCHANGED gt_calls
    /\ UNCHANGED <<globVars, detectVars, emojiVars, svgVars, imageVars, convVars,
                   mdVars, procVars, dlVars, assetVars>>

AssetIdle ==
    as_repo = <<>> /\ as_queue = <<>> /\ as_images = {} /\ as_doc = {} /\ as_pc = "idle"
RunIdle == DownloadIdle /\ GitIdle /\ AssetIdle

(***************************************************************************)
(* converter.py and markdown_processor.py: local images of a Markdown file *)
(***************************************************************************)
MaxImageFiles == 2

\* An image file of the repository: its directory below the root, its name
\* and what it shows.
ImageFile(dir, name, shows) == [dir |-> dir, name |-> name, shows |-> shows]

CandidateImages ==
    { ImageFile("docs", "logo.png", 1),
      ImageFile("assets", "logo.png", 2),
      ImageFile("assets", "pic.png", 3),
      ImageFile(".github", "logo.png", 4),
      ImageFile("vendor", "pic.png", 5) }

\* The Markdown file lies in the root; its name decides whether it is
\* processed before or after the images.
MarkdownNames == {"README.md", "z.md"}

\* config.ignores of the run.
AssetIgnores == {"vendor"}

\* sorted(rglob): README.md < assets < docs < vendor < z.md; within a
\* directory logo.png < pic.png.  The key of a file of all_files.
NameOrder == <<".github", "README.md", "assets", "docs", "logo.png", "pic.png", "vendor", "z.md">>
RankOf(name) == CHOOSE k \in DOMAIN NameOrder : NameOrder[k] = name
FileLess(f, g) ==
    \/ RankOf(f.dir) < RankOf(g.dir)
    \/ f.dir = g.dir /\ RankOf(f.name) < RankOf(g.name)

\* A file of the root has its own name as first part.
AsFile(kind, dir, name, shows) == [kind |-> kind, dir |-> dir, name |-> name, shows |-> shows]
MarkdownFile(name) == AsFile("md", name, name, 0)
ImageEntry(img) == AsFile("image", img.dir, img.name, img.shows)

RECURSIVE SortFiles(_)
SortFiles(S) ==
    IF S = {} THEN <<>>
    ELSE LET first == CHOOSE f \in S : \A g \in S \ {f} : FileLess(f, g)
         IN  <<first>> \o SortFiles(S \ {first})

\* _collect_files on a workspace without a dot-prefixed directory: no part
\* of the path starts with a dot.
CollectedAssets(repo) ==
    SortFiles({MarkdownFile(repo.md)}
                  \cup {ImageEntry(img) : img \in {i \in repo.images : i.dir # ".github"}})

\* should_ignore: an ignore pattern is part of the path.
AssetIgnored(file) == file.dir \in AssetIgnores

\* _resolve_image_path and img_path.exists(): the path of the reference,
\* taken from the directory of the Markdown file (the root), names a file of
\* the repository or none.
resolve_image_path(ref, repo) == {img \in repo.images : img.dir = ref.dir /\ img.name = ref.name}

\* _generate_markdown: all_files = self._collect_files()
CollectAssets ==
    /\ as_pc = "collect"
    /\ as_queue' = CollectedAssets(as_repo)
    /\ as_pc' = "files"
    /\ UNCHANGED <<as_repo, as_images, as_doc>>
    /\ UNCHANGED <<globVars, detectVars, emojiVars, svgVars, imageVars, convVars,
                   mdVars, procVars, dlVars, gitVars>>

\* _process_single_file on a file that should_ignore rejects: nothing.
SkipIgnoredFile ==
    /\ as_pc = "files"
    /\ as_queue # <<>>
    /\ AssetIgnored(Head(as_queue))
    /\ as_queue' = Tail(as_queue)
    /\ UNCHANGED <<as_repo, as_images, as_doc, as_pc>>
    /\ UNCHANGED <<globVars, detectVars, emojiVars, svgVars, imageVars, convVars,
                   mdVars, procVars, dlVars, gitVars>>

\* _process_image_file: shutil.copy2(file_path, self.images_dir / file_path.name)
\* writes over a file of that name.
ProcessImageFile ==
    /\ as_pc = "files"
    /\ as_queue # <<>>
    /\ ~AssetIgnored(Head(as_queue))
    /\ Head(as_queue).kind = "image"
    /\ LET file == Head(as_queue)
       IN  as_images' = {f \in as_images : f.name # file.name}
                            \cup {[name |-> file.name, shows |-> file.shows]}
    /\ as_queue' = Tail(as_queue)
    /\ UNCHANGED <<as_repo, as_doc, as_pc>>
    /\ UNCHANGED <<globVars, detectVars, emojiVars, svgVars, imageVars, convVars,
                   mdVars, procVars, dlVars, gitVars>>

\* _process_markdown_file, process_md_image on the local raster reference
\* of the file: an existing image becomes images/<name>, nothing is copied;
\* a reference that resolves to no file is removed.
RewriteImageReference ==
    /\ as_pc = "files"
    /\ as_queue # <<>>
    /\ ~AssetIgnored(Head(as_queue))
    /\ Head(as_queue).kind = "md"
    /\ LET found == resolve_image_path(as_repo.ref, as_repo)
       IN  as_doc' = as_doc \cup {[name |-> img.name, shows |-> img.shows] : img \in found}
    /\ as_queue' = Tail(as_queue)
    /\ UNCHANGED <<as_repo, as_images, as_pc>>
    /\ UNCHANGED <<globVars, detectVars, emojiVars, svgVars, imageVars, convVars,
                   mdVars, procVars, dlVars, gitVars>>

\* convert(): the document goes to pandoc after the last file.
HandToPandoc ==
    /\ as_pc = "files"
    /\ as_queue = <<>>
    /\ as_pc' = "pandoc"
    /\ UNCHANGED <<as_repo, as_queue, as_images, as_doc>>
    /\ UNCHANGED <<globVars, detectVars, emojiVars, svgVars, imageVars, convVars,
                   mdVars, procVars, dlVars, gitVars>>

\* A repository with a Markdown file in the root that refers to an image by
\* its path, and the images directory of a new temporary directory.
InitAssets ==
    /\ as_pc = "collect"
    /\ \E images \in SUBSET CandidateImages, md \in MarkdownNames :
          /\ Cardinality(images) <= MaxImageFiles
          /\ \E ref \in [dir : {"docs", "assets", ".github", "vendor"},
                         name : {"logo.png", "pic.png"}] :
                 as_repo = [md |-> md, images |-> images, ref |-> ref]
    /\ as_queue = <<>>
    /\ as_images = {}
    /\ as_doc = {}
    /\ GlobIdle /\ DetectIdle /\ EmojiIdle /\ SvgIdle /\ ImageIdle
    /\ ConvIdle /\ MdIdle /\ ProcIdle /\ DownloadIdle /\ GitIdle
NextAssets ==
    \/ CollectAssets
    \/ SkipIgnoredFile
    \/ ProcessImageFile
    \/ RewriteImageReference
    \/ HandToPandoc
SpecAssets == InitAssets /\ [][NextAssets]_vars

(***************************************************************************)
(* Specifications                                                          *)
(***************************************************************************)
InitGlob ==
    /\ g_path \in {p \o JoinSlash(s) :
                       p \in {<<>>, <<".", "/">>},
                       s \in SeqsUpTo({<<"a">>, <<"b">>, <<".", "a">>}, MaxSegs)}
    /\ g_pat \in {p \o JoinSlash(s) :
                      p \in {<<>>, <<".", "/">>, <<"/">>, <<".", "\\">>},
                      s \in SeqsUpTo({<<"A">>, DoubleStar, <<"*">>, <<".", "a">>}, MaxSegs)}
    /\ g_pc = "input"
    /\ g_res = FALSE
    /\ DetectIdle /\ EmojiIdle /\ SvgIdle /\ ImageIdle
    /\ ConvIdle /\ MdIdle /\ ProcIdle /\ RunIdle
SpecGlob == InitGlob /\ [][PosixGlobMatch]_vars

InitDetect ==
    /\ e_text \in SeqsUpTo(CodePoints, MaxText)
    /\ e_pc = "input"
    /\ e_items = <<>>
    /\ GlobIdle /\ EmojiIdle /\ SvgIdle /\ ImageIdle
    /\ ConvIdle /\ MdIdle /\ ProcIdle /\ RunIdle
SpecDetect == InitDetect /\ [][ExtractEmojis]_vars

InitEmoji ==
    /\ em_enable \in BOOLEAN
    /\ em_cache = [s \in EmojiSeqs |-> Absent]
    /\ em_disk \in {{}, {<<"2764">>}}
    /\ em_last = NoCall
    /\ em_first = [s \in EmojiSeqs |-> Absent]
    /\ GlobIdle /\ DetectIdle /\ SvgIdle /\ ImageIdle
    /\ ConvIdle /\ MdIdle /\ ProcIdle /\ RunIdle
NextEmoji ==
    \/ \E sequence \in EmojiSeqs : EnsureFromMemory(sequence)
    \/ \E sequence \in EmojiSeqs : EnsureFromDisk(sequence)
    \/ \E sequence \in EmojiSeqs : EnsureDisabled(sequence)
    \/ \E sequence \in EmojiSeqs : EnsureDownload(sequence)
SpecEmoji == InitEmoji /\ [][NextEmoji]_vars

InitSvg ==
    /\ sc_svg \in SvgContent
    /\ sc_pc = "input"
    /\ sc_out = NoOutcome
    /\ GlobIdle /\ DetectIdle /\ EmojiIdle /\ ImageIdle
    /\ ConvIdle /\ MdIdle /\ ProcIdle /\ RunIdle
SpecSvg == InitSvg /\ [][ConvertSvgToPng]_vars

\* A fresh ImageConverter; the cache directory may hold a file of an earlier run.
InitImage ==
    /\ sv_files \in [SvgFiles -> CacheContents]
    /\ sv_cache = [path \in ImagePaths |-> NoPng]
    /\ sv_disk \in {{}, {Md5(PlainSvg)}}
    /\ sv_last = NoConversion
    /\ sv_firstName = [c \in CacheContents |-> NoName]
    /\ GlobIdle /\ DetectIdle /\ EmojiIdle /\ SvgIdle
    /\ ConvIdle /\ MdIdle /\ ProcIdle /\ RunIdle
NextImage ==
    \/ \E path \in ImagePaths : ConvertImageNoContent(path)
    \/ \E path \in ImagePaths : ConvertImageCached(path)
    \/ \E path \in ImagePaths : ConvertImageOnDisk(path)
    \/ \E path \in ImagePaths : ConvertImageNow(path)
    \/ \E content \in CacheContents : ConvertContentOnDisk(content)
    \/ \E content \in CacheContents : ConvertContentNow(content)
SpecImage == InitImage /\ [][NextImage]_vars

\* A workspace that holds no copy or a complete copy of the repository.
InitGit ==
    /\ gt_dir \in {"none", "repo"}
    /\ gt_calls = <<>>
    /\ GlobIdle /\ DetectIdle /\ EmojiIdle /\ SvgIdle /\ ImageIdle
    /\ ConvIdle /\ MdIdle /\ ProcIdle /\ DownloadIdle /\ AssetIdle
NextGit ==
    \/ \E outcome \in GitOutcomes, left \in {"none", "partial", "repo"} :
           CloneOrPull(outcome, left)
    \/ Cleanup
SpecGit == InitGit /\ [][NextGit]_vars

\* A run that starts with an empty _conversion_cache and a cache directory
\* that may hold files of an earlier run.
InitDownload ==
    /\ dl_first = [url \in Urls |-> NoPng]
    /\ dl_cache = [url \in Urls |-> NoPng]
    /\ dl_disk \in SUBSET {CacheFile("https://h/a.png", ".png"),
                           CacheFile("https://h/b.svg", ".png")}
    /\ dl_http = 0
    /\ dl_last = <<>>
    /\ GlobIdle /\ DetectIdle /\ EmojiIdle /\ SvgIdle /\ ImageIdle
    /\ ConvIdle /\ MdIdle /\ ProcIdle /\ GitIdle /\ AssetIdle
NextDownload == \E url \in Urls : DownloadRemoteImage(url)
SpecDownload == InitDownload /\ [][NextDownload]_vars

(***************************************************************************)
(* processors/code_processor.py: _hard_wrap_lines and the steps 2 to 4 of  *)
(* process_code_file                                                       *)
(***************************************************************************)
\* pdf_settings.max_line_length: Field(ge=40, le=500)
MinLineLength == 40
MaxLineLength == 500

\* _hard_wrap_lines: the list lines, one entry per line of the content (a
\* wrapped line is its slices joined by newlines), and the text returned.
hard_wrap_lines(content, max_line_length) ==
    LET lns == splitlines(content)
        out == [k \in 1..Len(lns) |->
                   IF Len(lns[k]) > hard_wrap_threshold(max_line_length)
                   THEN Wrapped(lns[k], wrap_width(max_line_length))
                   ELSE lns[k]]
    IN  [out |-> out, text |-> JoinLines(out)]

HardWrapLines ==
    Returns("_hard_wrap_lines", hard_wrap_lines(p_args.content, p_args.max_line_length))

\* A line of n characters, no two neighbours alike.
Letters == <<"a", "b", "c", "d", "e", "f", "g">>
LineOf(n) == [k \in 1..n |-> Letters[(k % 7) + 1]]

\* The contents tried for a max_line_length: a line at the threshold, one
\* above it, lines whose length is and is not a multiple of the width, an
\* empty content and a short line before a long one.
WrapContents(max_line_length) ==
    LET T == hard_wrap_threshold(max_line_length)
        W == wrap_width(max_line_length)
        M == W * ((T \div W) + 1)
    IN  {LineOf(n) : n \in {0, T, T + 1, M, M + 1, 2 * T + 1}}
            \cup {JoinLines(<<LineOf(3), LineOf(T + 1)>>)}

\* process_long_lines leaves a line of at most MAX_LINE_LENGTH_DEFAULT
\* characters as it is; the bodies below have no longer line.
MAX_LINE_LENGTH_DEFAULT == 80
process_long_lines(content) == content

\* The characters of f"{ord(ch):x}".
HexOf(ch) ==
    IF ch = "1f468" THEN <<"1", "f", "4", "6", "8">>
    ELSE IF ch = "2764" THEN <<"2", "7", "6", "4">>
    ELSE IF ch = "fe0f" THEN <<"f", "e", "0", "f">>
    ELSE IF ch = "200d" THEN <<"2", "0", "0", "d">>
    ELSE <<"7", "8">>

\* _codepoints_to_sequence: "-".join of the hexadecimal code points.
RECURSIVE codepoints_to_sequence(_)
codepoints_to_sequence(emoji) ==
    IF emoji = <<>> THEN <<>>
    ELSE IF Len(emoji) = 1 THEN HexOf(emoji[1])
    ELSE HexOf(emoji[1]) \o <<"-">> \o codepoints_to_sequence(Tail(emoji))

\* The characters a piece of replace_emoji_in_text stands for:
\* f"\\emojiimg{{{png_filename}}}" with png_filename the sequence and ".png".
PieceText(piece) ==
    IF piece.form = "latex"
    THEN <<"\\", "e", "m", "o", "j", "i", "i", "m", "g", "{">>
             \o codepoints_to_sequence(piece.arg) \o <<".", "p", "n", "g", "}">>
    ELSE piece.arg

\* process_code_file, steps 2 to 4: code_transformed.
code_transformed(code_body, max_line_length, resolved) ==
    LET long == process_long_lines(code_body)
        wrapped == hard_wrap_lines(long, max_line_length).text
        pieces == replace_emoji_in_text(wrapped, TRUE, resolved)
    IN  [wrapped |-> wrapped,
         text |-> Flatten([k \in 1..Len(pieces) |-> PieceText(pieces[k])])]

CodeTransformed ==
    Returns("code_transformed",
            code_transformed(p_args.code_body, p_args.max_line_length, p_args.resolved))

\* Code bodies: lines of the character "78" that end with an emoji or not,
\* below, at and above the threshold of 40.
CodeLineOf(n, tail) == [k \in 1..n |-> "78"] \o tail
CodeBodies ==
    {CodeLineOf(n, tail) : n \in {20, 39, 40, 41}, tail \in {<<>>, <<"1f468">>, <<"2764", "fe0f">>}}
        \cup {JoinLines(<<CodeLineOf(3, <<>>), CodeLineOf(39, <<"1f468">>)>>)}

\* The conversions of a run during which the SVG files may be rewritten.
NextEdit ==
    \/ NextImage
    \/ \E path \in SvgFiles, content \in CacheContents : EditSvgFile(path, content)
SpecEdit == InitImage /\ [][NextEdit]_vars

InitConv ==
    /\ cv_pc = "start"
    /\ cv_repo_path \in {<<"ws", "repo">>, <<".cache", "ws", "repo">>}
    /\ cv_repo \in Repos
    /\ cv_cfg \in [include_tree : BOOLEAN, include_stats : BOOLEAN,
                   include_hidden_paths : {{}, {<<".git", "**">>}}]
    /\ cv_found = <<>>
    /\ cv_files = <<>>
    /\ cv_i = 0
    /\ cv_doc = <<>>
    /\ cv_failed = {}
    /\ cv_cause = "none"
    /\ GlobIdle /\ DetectIdle /\ EmojiIdle /\ SvgIdle
    /\ ImageIdle /\ MdIdle /\ ProcIdle /\ RunIdle
NextConv ==
    \/ CloneOrUpdateRepository
    \/ WriteTitle
    \/ GenerateTree
    \/ GenerateStats
    \/ CollectFiles
    \/ ProcessSingleFile
    \/ FinalScrub
    \/ GeneratePandocConfig
    \/ GeneratePdf
SpecConv == InitConv /\ [][NextConv]_vars

\* md_net: downloads succeed; md_existing: the paths that resolve to a file
\* of the repository.
InitMd ==
    /\ md_pc = "reference"
    /\ md_src \in SeqsUpTo(InputImages, MaxImages)
    /\ md_defs \in {{}} \cup {{[label |-> "logo", url |-> u, title |-> t]} :
                               u \in {RemoteUrl, LocalUrl}, t \in Titles}
    /\ md_net \in BOOLEAN
    /\ md_existing \in SUBSET {LocalUrl, NormalUrl, CachedUrl}
    /\ md_doc = md_src
    /\ GlobIdle /\ DetectIdle /\ EmojiIdle /\ SvgIdle
    /\ ImageIdle /\ ConvIdle /\ ProcIdle /\ RunIdle
NextMd ==
    \/ ProcessReferenceImages
    \/ ProcessInlineImages
    \/ ProcessHtmlImages
    \/ RemoveResidualRemoteImages
SpecMd == InitMd /\ [][NextMd]_vars

InitProc ==
    /\ p_pc = "input"
    /\ p_ret = <<>>
    /\ \/ /\ p_fn = "replace_emoji_in_text"
          /\ p_args \in [text : SeqsUpTo(CodePoints, MaxText), in_code : BOOLEAN,
                         resolved : SUBSET Resolvable]
       \/ /\ p_fn = "extract_header_comment"
          /\ \E ext \in {".py", ".js", ".sql", ".txt"} :
                 p_args \in [content : HeaderContents(ext), file_extension : {ext}]
       \/ /\ p_fn = "process_code_file"
          /\ p_args \in [total_lines : 0..MaxBodyLines, split_large_files : BOOLEAN]
       \/ /\ p_fn = "should_ignore"
          /\ p_args \in [path : {JoinSlash(segs) :
                                    segs \in SeqsUpTo(PathNames, MaxSegs) \ {<<>>}},
                         ignore_patterns : SUBSET IgnorePatterns]
       \/ /\ p_fn = "collect_files"
          /\ p_args \in [repo_path : {<<"/", "repo">>},
                         files : {Pick(Listing, S, 1) : S \in SUBSET DOMAIN Listing},
                         unsafe : {{}, {Listing[7]}},
                         include_hidden : BOOLEAN,
                         include_hidden_paths : {{}, {<<".", "claude", "/", "*", "*">>}},
                         ignore_patterns : {{}, IgnorePatterns}]
       \/ /\ p_fn = "_process_markdown_file"
          /\ p_args \in [rel_path : MarkdownPaths, raises : BOOLEAN,
                         raw_markdown_paths : SUBSET RawMarkdownPaths,
                         raw_markdown_exclude_paths : SUBSET RawMarkdownExcludePaths]
       \/ /\ p_fn = "_escape_backslash_u_sequences"
          /\ p_args \in [content : MarkdownContents]
       \/ /\ p_fn = "escape_backslash_u_outside_code"
          /\ p_args \in [content : MarkdownContents]
       \/ /\ p_fn = "_hard_wrap_code_blocks"
          /\ p_args \in [content : MarkdownContents, max_line_length : {40, 80}]
       \/ /\ p_fn = "_hard_wrap_lines"
          /\ \E L \in MinLineLength..MaxLineLength :
                 p_args \in [content : WrapContents(L), max_line_length : {L}]
       \/ /\ p_fn = "code_transformed"
          /\ p_args \in [code_body : CodeBodies, max_line_length : {40, 60},
                         resolved : SUBSET Resolvable]
    /\ GlobIdle /\ DetectIdle /\ EmojiIdle /\ SvgIdle
    /\ ImageIdle /\ ConvIdle /\ MdIdle /\ RunIdle
NextProc ==
    \/ ReplaceEmojiInText
    \/ ExtractHeaderComment
    \/ ProcessCodeFile
    \/ ShouldIgnore
    \/ CollectFilesOfProcessor
    \/ ProcessMarkdownFile
    \/ EscapeBackslashUSequences
    \/ EscapeBackslashUOutsideCode
    \/ HardWrapCodeBlocks
    \/ HardWrapLines
    \/ CodeTransformed
SpecProc == InitProc /\ [][NextProc]_vars

(***************************************************************************)
(* Claims on the path matcher.                                             *)
(***************************************************************************)
\* The segments of a path or pattern as the specification describes them:
\* "/"-separated, after removing a leading "./" prefix and leading "/".
RECURSIVE DropLeadingDotSlash(_)
DropLeadingDotSlash(s) ==
    IF Len(s) >= 2 /\ s[1] = "." /\ s[2] = "/" THEN DropLeadingDotSlash(SubSeq(s, 3, Len(s)))
    ELSE IF s # <<>> /\ s[1] = "/" THEN DropLeadingDotSlash(Tail(s))
    ELSE s

Segments(value) ==
    DropEmptyAndDot(SplitSlash(DropLeadingDotSlash(ReplaceBackslash(Strip(value))), <<>>))

\* take[j] is the number of path segments pattern segment j stands for.
RECURSIVE SumTo(_, _)
SumTo(take, j) == IF j = 0 THEN 0 ELSE take[j] + SumTo(take, j - 1)

Aligned(pathSegs, patSegs) ==
    \E take \in [1..Len(patSegs) -> 0..Len(pathSegs)] :
        /\ SumTo(take, Len(patSegs)) = Len(pathSegs)
        /\ \A j \in 1..Len(patSegs) :
              patSegs[j] # DoubleStar =>
                  /\ take[j] = 1
                  /\ seg_match(pathSegs[SumTo(take, j)], patSegs[j])

\* C6: posix_glob_match(path, pattern) is true exactly when the segments of
\* the pattern can be aligned with the segments of the path, each "**"
\* standing for zero or more whole segments and every other pattern segment
\* matching exactly one; an exhausted pattern matches only an exhausted path.
C6_MatchIffAligned ==
    g_pc = "matched" => (g_res <=> Aligned(Segments(g_path), Segments(g_pat)))

\* The recurrence alone, on the parts _split_posix_parts produced, does align.
C6_DpAlignsItsParts ==
    g_pc = "matched" =>
        (g_res <=> Aligned(split_posix_parts(g_path), split_posix_parts(g_pat)))

(***************************************************************************)
(* Claims on the emoji handler.                                            *)
(***************************************************************************)
\* The grammar of one emoji: a base, an optional VS16, then ZWJ-joined bases,
\* each with an optional VS16.
RECURSIVE IsJoinedTail(_)
IsJoinedTail(s) ==
    \/ s = <<>>
    \/ /\ Len(s) >= 2 /\ s[1] = ZWJ /\ s[2] \in EmojiBase
       /\ \/ IsJoinedTail(SubSeq(s, 3, Len(s)))
          \/ Len(s) >= 3 /\ s[3] = VS16 /\ IsJoinedTail(SubSeq(s, 4, Len(s)))

IsCluster(s) ==
    /\ s # <<>> /\ s[1] \in EmojiBase
    /\ \/ IsJoinedTail(Tail(s))
       \/ Len(s) >= 2 /\ s[2] = VS16 /\ IsJoinedTail(SubSeq(s, 3, Len(s)))

IsComposite(s) == IsCluster(s) /\ InSeq(ZWJ, s)

\* The composites of a text: the spans that are composites and lie in no
\* longer composite.
IsCompositeSpan(text, i, j) ==
    /\ 1 <= i /\ i <= j /\ j <= Len(text)
    /\ IsComposite(SubSeq(text, i, j))
    /\ \A i2 \in 1..i, j2 \in j..Len(text) :
          IsComposite(SubSeq(text, i2, j2)) => (i2 = i /\ j2 = j)

Positions(text) == 1..Len(text)

\* C9: every zero-width-joiner composite of a text is one match of the
\* detection pattern, never several: that whole span is what
\* replace_emoji_in_text replaces and what extract_emojis returns as an item.
C9_CompositeIsOneItem ==
    e_pc = "extracted" =>
        \A i \in Positions(e_text), j \in Positions(e_text) :
            IsCompositeSpan(e_text, i, j) =>
                LET ms == EmojiMatches(e_text, 1)
                IN  \E k \in 1..Len(ms) :
                        /\ ms[k].start = i /\ ms[k].end = j
                        /\ Group0(e_text, ms[k]) = SubSeq(e_text, i, j)
                        /\ e_items[k] = SubSeq(e_text, i, j)

\* The pattern itself does match each composite as one span.
C9_CompositeIsOneSpan ==
    \A i \in Positions(e_text), j \in Positions(e_text) :
        IsCompositeSpan(e_text, i, j) =>
            LET ms == EmojiMatches(e_text, 1)
            IN  \E k \in 1..Len(ms) : ms[k].start = i /\ ms[k].end = j

\* Available under a file name, or unavailable (None and "" alike).
Outcome(v) == IF v.k = "file" THEN v ELSE NoneVal

\* C10: on one handler each sequence is resolved at most once: a call for a
\* sequence whose first call has returned looks at no file, sends no HTTP
\* request and reports the outcome of the first call.
C10_ResolvedOnce ==
    (em_last # NoCall /\ ~em_last.first) =>
        /\ em_last.lookups = 0
        /\ em_last.http = 0
        /\ Outcome(em_last.ret) = Outcome(em_first[em_last.seq])

\* A sequence that was unavailable is asked for again.
C10_Witness ==
    /\ em_last # NoCall
    /\ ~em_last.first
    /\ em_first[em_last.seq].k = "none"

(***************************************************************************)
(* Claims on the image converter.                                          *)
(***************************************************************************)
\* Width or height is zero, given explicitly or derived from the viewBox.
HasZeroDimension(svg) ==
    \/ svg.w = "zero"
    \/ svg.h = "zero"
    \/ (svg.vb = "zero" /\ (svg.w = "absent" \/ svg.h = "absent"))

\* C7: for every SVG with a zero width or height, explicit or derived from
\* its viewBox, convert_svg_to_png returns False and neither CairoSVG nor the
\* Inkscape fallback writes the output file.
C7_ZeroDimensionRejected ==
    (sc_pc = "returned" /\ sc_svg.wellformed /\ HasZeroDimension(sc_svg)) =>
        (~sc_out.ret /\ ~sc_out.wrote)

\* C8: converting the same vector content again returns the cache file name
\* returned for it before, and once one conversion of a content has
\* succeeded no later conversion of it runs a rasterizer.
C8_SameNameNoRerun ==
    (sv_last.fn # "none" /\ sv_last.hasContent) =>
        /\ IsCacheName(sv_last.ret) => sv_last.ret.name = sv_firstName[sv_last.content]
        /\ sv_last.prior => (IsCacheName(sv_last.ret) /\ sv_last.raster = 0)

\* A content converted successfully before is converted again.
C8_Witness ==
    /\ sv_last.fn = "convert_svg_content_to_png"
    /\ sv_last.prior
    /\ sv_last.ret = PngName(Md5(sv_last.content))

(***************************************************************************)
(* Claims on the converter.                                                *)
(***************************************************************************)
DocEntries(file) == {i \in DOMAIN cv_doc : cv_doc[i] = Entry("file", file)}

\* C2: whichever files fail, _generate_markdown does not raise: a failing
\* file contributes nothing to the document, and every other file that has
\* a section has it written exactly once.
C2_FileFailuresSwallowed ==
    /\ cv_cause # "file"
    /\ \A k \in 1 .. (cv_i - 1) :
          Cardinality(DocEntries(cv_files[k])) =
              IF cv_files[k] \notin cv_failed /\ cv_files[k].kind \in BlockKinds
              THEN 1 ELSE 0

\* The run is over, a file failed, and a later file has its section.
C2_Witness ==
    /\ cv_pc = "done"
    /\ \E k \in DOMAIN cv_files : \E l \in DOMAIN cv_files :
          /\ k < l
          /\ cv_files[k] \in cv_failed
          /\ ~cv_files[k].utf8
          /\ DocEntries(cv_files[l]) # {}

\* C3: convert() ends with an error only when the repository cannot be
\* obtained or Pandoc cannot produce the PDF; no other step aborts the run.
C3_OnlyCloneOrPandocAbort ==
    cv_pc = "error" => cv_cause \in {"clone", "pandoc"}

\* Path.resolve(): links followed.
Resolve(repo_path, file) ==
    IF file.outside THEN OutsideTarget ELSE repo_path \o file.rel

\* FileProcessor.is_safe_path(base_dir, target_path)
is_safe_path(base_dir, file) == IsPrefix(base_dir, Resolve(base_dir, file))

\* C4: every file written into the assembled document resolves to a path
\* inside the repository root.
C4_DocumentFilesInsideRoot ==
    \A i \in DOMAIN cv_doc :
        cv_doc[i].k = "file" => is_safe_path(cv_repo_path, cv_doc[i].file)

KindOrder == <<"title", "tree", "stats", "file">>
KindRank(k) == CHOOSE i \in DOMAIN KindOrder : KindOrder[i] = k
Has(k) == \E i \in DOMAIN cv_doc : cv_doc[i].k = k

\* C5: the document is the title line, then the tree (if enabled), then the
\* statistics (if enabled), then the file sections in ascending path order.
C5_DocumentOrder ==
    /\ cv_doc # <<>> => cv_doc[1].k = "title"
    /\ \A i \in DOMAIN cv_doc : \A j \in DOMAIN cv_doc :
          i < j =>
             IF cv_doc[i].k = "file" /\ cv_doc[j].k = "file"
             THEN PartsLess(Parts(cv_repo_path, cv_doc[i].file),
                            Parts(cv_repo_path, cv_doc[j].file))
             ELSE KindRank(cv_doc[i].k) < KindRank(cv_doc[j].k)
    /\ cv_pc \in {"collect", "files", "config", "pandoc", "done"} =>
          /\ Has("tree") <=> cv_cfg.include_tree
          /\ Has("stats") <=> cv_cfg.include_stats

\* A whole document: tree, statistics and two sections, from files that
\* rglob did not yield in order.
C5_Witness ==
    /\ cv_pc = "done"
    /\ Has("tree") /\ Has("stats")
    /\ Len(cv_doc) > Len(KindOrder)
    /\ cv_found # sorted(cv_repo_path, cv_found)

(***************************************************************************)
(* Claims on the Markdown processor.                                       *)
(***************************************************************************)
\* Labels match without regard to case.
LabelFold(label) == IF label = "Logo" THEN "logo" ELSE label

\* What a Markdown reader takes for the target of an image reference.
Target(image, defs) ==
    IF image.form \in {"inline", "html"} THEN image.url
    ELSE IF image.form = "reference"
    THEN LET label == IF image.style = "full" THEN image.ref ELSE image.alt
             found == {d \in defs : LabelFold(d.label) = LabelFold(label)}
         IN  IF found = {} THEN NoUrl ELSE (CHOOSE d \in found : TRUE).url
    ELSE NoUrl

\* C1: when downloads fail, the output of process_markdown_content holds no
\* image reference, of any form, whose target is a remote URL.
C1_NoRemoteImageLeft ==
    (md_pc = "done" /\ ~md_net) =>
        \A i \in DOMAIN md_doc : ~IsRemote(Target(md_doc[i], md_defs))

\* Where C1 does hold: one-line inline images and <img> tags.
C1_OneLineInlineAndHtmlRemoved ==
    (md_pc = "done" /\ ~md_net) =>
        \A i \in DOMAIN md_doc :
            (md_src[i].form = "html" \/ (md_src[i].form = "inline" /\ ~md_src[i].multiline))
                => ~IsRemote(Target(md_doc[i], md_defs))

\* A local path that resolves to no existing file.
MissingLocal(url, existing) == url # NoUrl /\ ~IsRemote(url) /\ url \notin existing

\* C12: an image reference of any handled form (inline, reference-style,
\* <img>) whose target is a local path that resolves to no existing file is
\* removed from the output of process_markdown_content.
C12_MissingLocalImageRemoved ==
    md_pc = "done" =>
        \A i \in DOMAIN md_src :
            MissingLocal(Target(md_src[i], md_defs), md_existing) => md_doc[i] = Gone

\* Where C12 does hold: one-line inline images, <img> tags, and full
\* references whose label is written as in a definition the pass extracts.
C12_InlineHtmlAndExactReferenceRemoved ==
    md_pc = "done" =>
        \A i \in DOMAIN md_src :
            (/\ MissingLocal(Target(md_src[i], md_defs), md_existing)
             /\ \/ md_src[i].form = "html"
                \/ md_src[i].form = "inline" /\ ~md_src[i].multiline
                \/ /\ md_src[i].form = "reference"
                   /\ md_src[i].style = "full"
                   /\ \E d \in extract_reference_links(md_defs) : d.label = md_src[i].ref)
                => md_doc[i] = Gone

(***************************************************************************)
(* Claims on emoji replacement.                                            *)
(***************************************************************************)
\* C11: an emoji that resolves to a file is replaced by the prose directive
\* \emojiimg{f} when in_code is false and by the code-safe directive
\* (section sign, emojiimg, f in guillemets) when in_code is true.
C11_ContextSelectsDirective ==
    (p_fn = "replace_emoji_in_text" /\ p_pc = "returned") =>
        \A k \in 1..Len(p_ret) :
            p_ret[k].form # "text" =>
                p_ret[k].form = IF p_args.in_code THEN "code_safe" ELSE "latex"

\* In prose context the directive is \emojiimg{f}, and an emoji that does
\* not resolve stays in the text.
C11_ProseDirective ==
    (p_fn = "replace_emoji_in_text" /\ p_pc = "returned" /\ ~p_args.in_code) =>
        LET ms == EmojiMatches(p_args.text, 1)
        IN  \A k \in 1..Len(ms) :
                LET emoji == Group0(p_args.text, ms[k])
                IN  \E j \in 1..Len(p_ret) :
                        /\ p_ret[j].arg = emoji
                        /\ p_ret[j].form =
                               IF emoji \in p_args.resolved THEN "latex" ELSE "text"


(***************************************************************************)
(* Claims on the code processor.                                           *)
(***************************************************************************)
\* A line that is a "#" comment, and its text without the marker.
IsHashComment(line) == LStrip(line, {" "}) # <<>> /\ Head(LStrip(line, {" "})) = "#"
CommentText(line) == Strip(Tail(LStrip(line, {" "})))

\* The content after its first m lines and their line ends.
AfterLines(content, m) ==
    SubSeq(content, Len(JoinLines(SubSeq(SplitLines(content, <<>>), 1, m))) + 2,
           Len(content))

\* The files C13 is about: k lines of "#" comments, one empty line, then code.
HashHeaderThenCode(content, k) ==
    LET lines == SplitLines(content, <<>>)
    IN  /\ k >= 1 /\ k + 2 <= Len(lines)
        /\ \A j \in 1..k : IsHashComment(lines[j])
        /\ lines[k + 1] = <<>>
        /\ Strip(lines[k + 2]) # <<>>

\* C13: for a hash-comment-style file made of "#" comment lines, one blank
\* line, then code, extract_header_comment returns as header the comment
\* texts without their markers, joined by newlines, and as remaining code
\* the text after the blank line unchanged, its final newline included.
C13_HeaderAndRemainingText ==
    (/\ p_fn = "extract_header_comment" /\ p_pc = "returned"
     /\ p_args.file_extension \in SHARP_EXTENSIONS) =>
        \A k \in 1..MaxHeaderLines :
            HashHeaderThenCode(p_args.content, k) =>
                LET lines == SplitLines(p_args.content, <<>>)
                IN  /\ p_ret.header = JoinLines([j \in 1..k |-> CommentText(lines[j])])
                    /\ p_ret.remaining = AfterLines(p_args.content, k + 1)

\* What does hold: the header is as C13 says, and the remaining code is the
\* lines after the blank line joined by newlines, without a final newline.
C13_HeaderAndRemainingLines ==
    (/\ p_fn = "extract_header_comment" /\ p_pc = "returned"
     /\ p_args.file_extension \in SHARP_EXTENSIONS) =>
        \A k \in 1..MaxHeaderLines :
            HashHeaderThenCode(p_args.content, k) =>
                LET lines == SplitLines(p_args.content, <<>>)
                IN  /\ p_ret.header = JoinLines([j \in 1..k |-> CommentText(lines[j])])
                    /\ p_ret.remaining = JoinLines(SubSeq(lines, k + 2, Len(lines)))


\* The number of 800-line chunks that n lines need.
Chunks(n) == CHOOSE c \in 0..n : CHUNK_SIZE_LINES * (c - 1) < n /\ n <= CHUNK_SIZE_LINES * c

\* C14: with splitting enabled a body of N > 1000 lines comes out as
\* ceil(N/800) parts, part i titled with the lines 800(i-1)+1 to
\* min(800i, N) and holding exactly those lines, so that the bodies in order
\* are the N lines; a body of at most 1000 lines comes out as one block.
C14_SplitIntoChunks ==
    (/\ p_fn = "process_code_file" /\ p_pc = "returned"
     /\ p_args.split_large_files) =>
        LET n == p_args.total_lines
            parts == p_ret.parts
        IN  IF n > 1000
            THEN /\ p_ret.kind = "split"
                 /\ Len(parts) = Chunks(n)
                 /\ \A i \in 1..Len(parts) :
                        /\ parts[i].part = i
                        /\ parts[i].first = 800 * (i - 1) + 1
                        /\ parts[i].last = Min(800 * i, n)
                        /\ parts[i].body = [k \in 1..(parts[i].last - parts[i].first + 1) |->
                                               parts[i].first + k - 1]
                 /\ Flatten([i \in 1..Len(parts) |-> parts[i].body]) = BodyLines(n)
            ELSE /\ p_ret.kind = "whole"
                 /\ Len(parts) = 1
                 /\ parts[1].body = BodyLines(n)

\* A body of 1500 lines has been split into the parts 1-800 and 801-1500.
C14_Witness ==
    /\ p_fn = "process_code_file" /\ p_pc = "returned"
    /\ p_args.split_large_files /\ p_args.total_lines = 1500
    /\ Len(p_ret.parts) = 2
    /\ p_ret.parts[1].first = 1 /\ p_ret.parts[1].last = 800
    /\ p_ret.parts[2].first = 801 /\ p_ret.parts[2].last = 1500


(***************************************************************************)
(* Claims on the file processor.                                           *)
(***************************************************************************)
\* Some directory or file name of the path is the pattern.
HasName(path_str, pattern) ==
    \E k \in DOMAIN SplitSlash(path_str, <<>>) : SplitSlash(path_str, <<>>)[k] = pattern

\* C15: with the ignore pattern node_modules, should_ignore excludes the
\* paths that have a directory or file named node_modules and does not
\* exclude a path merely because node_modules occurs inside a longer name.
C15_PlainPatternMatchesWholeNames ==
    (/\ p_fn = "should_ignore" /\ p_pc = "returned"
     /\ p_args.ignore_patterns = {<<"node_modules">>}) =>
        (p_ret <=> \/ HasName(p_args.path, <<"node_modules">>)
                   \/ PathSuffix(p_args.path) \in BINARY_EXTENSIONS)

\* What does hold: a path with a directory named node_modules is excluded.
C15_DirectoryExcluded ==
    (/\ p_fn = "should_ignore" /\ p_pc = "returned"
     /\ p_args.ignore_patterns = {<<"node_modules">>}
     /\ HasName(p_args.path, <<"node_modules">>)) => p_ret


\* The names that are collected whatever the hidden-file exclusion.
AlwaysIncluded ==
    {<<".", "cursorrules">>, <<".", "git", "ignore">>, <<".", "env", ".example">>}

InSequence(x, seq) == \E k \in DOMAIN seq : seq[k] = x

\* C16: with hidden files excluded, every file named .cursorrules,
\* .gitignore or .env.example is in the list collect_files returns, whatever
\* hidden directories are on its path, under the default ignore patterns too.
C16_AllowListedAlwaysCollected ==
    (p_fn = "collect_files" /\ p_pc = "returned" /\ ~p_args.include_hidden) =>
        \A k \in DOMAIN p_args.files :
            (/\ PathName(p_args.files[k]) \in AlwaysIncluded
             /\ p_args.files[k] \notin p_args.unsafe)
                => InSequence(p_args.files[k], p_ret)

\* What does hold for FileProcessor.collect_files: the hidden-file exclusion
\* itself never drops an allow-listed name (no ignore pattern configured).
C16_HiddenExclusionKeepsAllowListed ==
    (/\ p_fn = "collect_files" /\ p_pc = "returned" /\ ~p_args.include_hidden
     /\ p_args.ignore_patterns = {}) =>
        \A k \in DOMAIN p_args.files :
            (/\ PathName(p_args.files[k]) \in AlwaysIncluded
             /\ p_args.files[k] \notin p_args.unsafe)
                => InSequence(p_args.files[k], p_ret)

\* What does hold for the converter's _collect_files: every allow-listed
\* name of the repository is in all_files.
C16_ConverterKeepsAllowListed ==
    cv_pc \in {"files", "config", "pandoc", "done"} =>
        \A file \in cv_repo :
            file.rel[Len(file.rel)] \in AllowedDotfiles
                => \E k \in DOMAIN cv_files : cv_files[k] = file


\* A repository-relative path (its segments) matches a glob whose segments
\* are names or "**".
RECURSIVE MatchesGlob(_, _)
MatchesGlob(parts, glob) ==
    IF glob = <<>> THEN parts = <<>>
    ELSE IF Head(glob) = "**"
         THEN MatchesGlob(parts, Tail(glob))
              \/ (parts # <<>> /\ MatchesGlob(Tail(parts), glob))
    ELSE parts # <<>> /\ Head(parts) = Head(glob) /\ MatchesGlob(Tail(parts), Tail(glob))

HasHiddenSegment(file) == \E i \in DOMAIN file.rel : StartsWithDot(file.rel[i])
ForceIncluded(file, globs) == \E glob \in globs : MatchesGlob(file.rel, glob)
Collected(file) == \E k \in DOMAIN cv_files : cv_files[k] = file

\* C17: a file with a dot-prefixed segment in its repository-relative path
\* is collected by the converter if the path matches one of the
\* include_hidden_paths globs, and is left out if it matches none and its
\* name is not allow-listed.
C17_HiddenCollectedIffIncluded ==
    cv_pc \in {"files", "config", "pandoc", "done"} =>
        \A file \in cv_repo :
            HasHiddenSegment(file) =>
                /\ ForceIncluded(file, cv_cfg.include_hidden_paths) => Collected(file)
                /\ (/\ ~ForceIncluded(file, cv_cfg.include_hidden_paths)
                    /\ file.rel[Len(file.rel)] \notin AllowedDotfiles) => ~Collected(file)

\* What does hold: a hidden path that matches no include glob and is not
\* allow-listed is left out.
C17_HiddenExcludedWithoutOverride ==
    cv_pc \in {"files", "config", "pandoc", "done"} =>
        \A file \in cv_repo :
            (/\ HasHiddenSegment(file)
             /\ ~ForceIncluded(file, cv_cfg.include_hidden_paths)
             /\ file.rel[Len(file.rel)] \notin AllowedDotfiles) => ~Collected(file)


(***************************************************************************)
(* Claims on the converter's Markdown sections.                            *)
(***************************************************************************)
\* The path matches a raw_markdown_paths glob and no
\* raw_markdown_exclude_paths glob.
IsRawMarkdown(args) ==
    /\ posix_glob_match_any(args.rel_path, args.raw_markdown_paths)
    /\ ~posix_glob_match_any(args.rel_path, args.raw_markdown_exclude_paths)

\* C18: _process_markdown_file emits a Markdown file as a verbatim fenced
\* code block, its text unchanged, exactly when its path matches a
\* raw_markdown_paths glob and no raw_markdown_exclude_paths glob; every
\* other .md file is emitted as transformed prose without a fence.
C18_RawMarkdownIsFencedVerbatim ==
    (/\ p_fn = "_process_markdown_file" /\ p_pc = "returned"
     /\ ~p_args.raises /\ PathSuffix(p_args.rel_path) = ".md") =>
        IF IsRawMarkdown(p_args)
        THEN p_ret.fence # "none" /\ p_ret.text = "content"
        ELSE p_ret.fence = "none" /\ p_ret.text = "processed"

\* What does hold: a .md file that is not raw is emitted as transformed
\* prose without a fence.
C18_OtherMarkdownIsProse ==
    (/\ p_fn = "_process_markdown_file" /\ p_pc = "returned"
     /\ ~p_args.raises /\ PathSuffix(p_args.rel_path) = ".md"
     /\ ~IsRawMarkdown(p_args)) =>
        p_ret.fence = "none" /\ p_ret.text = "processed"


\* What the claims say of the lines of a Markdown text: a line is prose, a
\* fence line or a line of code inside a fenced region; a region opens at a
\* line that begins with three or more backticks and ends at the first
\* line that starts with that fence; it is raw when the info after the
\* opening fence contains {=latex} or is latex.
IsRawTag(info) == (\E k \in 1..Len(info) : info[k] = "{=latex}") \/ Strip(info) = <<"latex">>
RECURSIVE LineClasses(_, _, _)
LineClasses(lines, open, raw) ==
    IF lines = <<>> THEN <<>>
    ELSE LET ln == Head(lines)
         IN  IF open = <<>>
             THEN IF FenceOf(ln) # <<>>
                  THEN LET r == IsRawTag(SubSeq(ln, Len(FenceOf(ln)) + 1, Len(ln)))
                       IN  <<[class |-> "fence", raw |-> r]>>
                               \o LineClasses(Tail(lines), FenceOf(ln), r)
                  ELSE <<[class |-> "prose", raw |-> FALSE]>>
                           \o LineClasses(Tail(lines), <<>>, FALSE)
             ELSE IF IsPrefix(open, ln)
                  THEN <<[class |-> "fence", raw |-> FALSE]>>
                           \o LineClasses(Tail(lines), <<>>, FALSE)
                  ELSE <<[class |-> "code", raw |-> raw]>>
                           \o LineClasses(Tail(lines), open, raw)
ContentLines == splitlines(p_args.content)
ContentClasses == LineClasses(ContentLines, <<>>, FALSE)

\* C19: the Markdown escape step leaves every line inside a fenced code
\* region, and the fence lines themselves, exactly as they were.  Violated by
\* _escape_backslash_u_sequences, which doubles every backslash of the lines
\* inside fenced regions (and rewrites nothing outside them).
C19_FencedLinesLeftAsTheyWere ==
    (p_fn = "_escape_backslash_u_sequences" /\ p_pc = "returned") =>
        /\ Len(p_ret.out) = Len(ContentLines)
        /\ \A k \in 1..Len(ContentLines) :
               ContentClasses[k].class \in {"fence", "code"} => p_ret.out[k] = ContentLines[k]

\* What does hold for _escape_backslash_u_sequences: prose lines and fence
\* lines are left as they were, and every backslash of a line inside a
\* fenced region is doubled.
C19_PackageEscapesInsideOnly ==
    (p_fn = "_escape_backslash_u_sequences" /\ p_pc = "returned") =>
        /\ Len(p_ret.out) = Len(ContentLines)
        /\ \A k \in 1..Len(ContentLines) :
               p_ret.out[k] = IF ContentClasses[k].class = "code"
                              THEN EscapeBackslashes(ContentLines[k])
                              ELSE ContentLines[k]

\* What does hold for escape_backslash_u_outside_code of src/repo-to-pdf.py:
\* escape sequences are rewritten on prose lines only; fence lines and the
\* lines inside fenced regions are left exactly as they were.
C19_LegacyEscapesOutsideOnly ==
    (p_fn = "escape_backslash_u_outside_code" /\ p_pc = "returned") =>
        /\ Len(p_ret.out) = Len(ContentLines)
        /\ \A k \in 1..Len(ContentLines) :
               IF ContentClasses[k].class = "prose"
               THEN (p_ret.out[k] # ContentLines[k]) =
                        (\E i \in 1..(Len(ContentLines[k]) - 1) :
                            ContentLines[k][i] = "\\" /\ ContentLines[k][i + 1] = "u1234")
               ELSE p_ret.out[k] = ContentLines[k]

\* C20: the hard-wrap pass changes a line only if it lies inside a fenced
\* region that is not tagged raw pass-through ({=latex} or latex) and is
\* longer than the threshold, and then it is sliced at the wrap width; prose
\* lines, fence lines and every line of a raw region are unchanged; a region
\* ends at the first line that starts with its opening fence, and the raw
\* flag is cleared there.
C20_WrapsOnlyLongCodeLines ==
    (p_fn = "_hard_wrap_code_blocks" /\ p_pc = "returned") =>
        /\ Len(p_ret.out) = Len(ContentLines)
        /\ \A k \in 1..Len(ContentLines) :
               p_ret.out[k] =
                   IF /\ ContentClasses[k].class = "code"
                      /\ ~ContentClasses[k].raw
                      /\ Len(ContentLines[k]) > hard_wrap_threshold(p_args.max_line_length)
                   THEN Wrapped(ContentLines[k], wrap_width(p_args.max_line_length))
                   ELSE ContentLines[k]
        /\ p_ret.text = JoinLines(p_ret.out)

\* A raw region was opened and closed, and a long line of the ordinary
\* fenced region that follows it has been wrapped.
C20_Witness ==
    /\ p_fn = "_hard_wrap_code_blocks" /\ p_pc = "returned"
    /\ \E j, k \in 1..Len(ContentLines) :
           /\ j < k
           /\ ContentClasses[j].class = "fence" /\ ContentClasses[j].raw
           /\ ContentClasses[k].class = "code" /\ ~ContentClasses[k].raw
           /\ p_ret.out[k] # ContentLines[k]

\* What the claims say of a file's leading comment: the lines of the
\* header are the run of lines that begin with the marker of the file's
\* style; a block comment runs to the first line that holds its closing
\* marker (to the end when there is none) and may be followed by // lines.
IsCommentLine(line, marker) == LStrip(line, {" "}) # <<>> /\ Head(LStrip(line, {" "})) = marker
RECURSIVE CommentRunEnd(_, _, _)
CommentRunEnd(lines, from, marker) ==
    IF from <= Len(lines) /\ IsCommentLine(lines[from], marker)
    THEN CommentRunEnd(lines, from + 1, marker) ELSE from - 1
LeadingCommentLines(lines, file_extension) ==
    LET closes == {k \in 1..Len(lines) : \E j \in 1..Len(lines[k]) : lines[k][j] = "*/"}
        close == CHOOSE k \in closes : \A j \in closes : k <= j
    IN  IF lines = <<>> THEN 0
        ELSE IF file_extension = ".js"
        THEN IF IsCommentLine(lines[1], "/*")
             THEN IF closes = {} THEN Len(lines) ELSE CommentRunEnd(lines, close + 1, "//")
             ELSE CommentRunEnd(lines, 1, "//")
        ELSE IF file_extension = ".py" THEN CommentRunEnd(lines, 1, "#")
        ELSE IF file_extension = ".sql" THEN CommentRunEnd(lines, 1, "--")
        ELSE 0
\* The lines left when the header and at most blanks blank lines after it
\* are removed.
RemainingAfterHeader(lines, file_extension, blanks) ==
    LET m == LeadingCommentLines(lines, file_extension)
        RECURSIVE Skip(_, _)
        Skip(i, left) == IF left > 0 /\ i <= Len(lines) /\ Strip(lines[i]) = <<>>
                         THEN Skip(i + 1, left - 1) ELSE i
    IN  SubSeq(lines, Skip(m + 1, blanks), Len(lines))
HeaderArgs == [lines |-> SplitLines(p_args.content, <<>>), ext |-> p_args.file_extension]
HasHeader == LeadingCommentLines(HeaderArgs.lines, HeaderArgs.ext) > 0

\* C21: for every comment style, header extraction removes from the code
\* exactly the leading comment lines plus at most one blank line after
\* them; further blank lines stay at the start of the remaining code.
\* Violated for the /* */ style, where two blank lines are removed.
C21_HeaderPlusOneBlankRemoved ==
    (p_fn = "extract_header_comment" /\ p_pc = "returned" /\ HasHeader) =>
        p_ret.remaining = JoinLines(RemainingAfterHeader(HeaderArgs.lines, HeaderArgs.ext, 1))

\* What does hold: the //, # and -- styles remove the comment lines and at
\* most one blank line; the /* */ style removes the comment lines and at
\* most two blank lines.
C21_BlockStyleRemovesTwoBlanks ==
    (p_fn = "extract_header_comment" /\ p_pc = "returned" /\ HasHeader) =>
        p_ret.remaining =
            JoinLines(RemainingAfterHeader(HeaderArgs.lines, HeaderArgs.ext,
                          IF IsCommentLine(HeaderArgs.lines[1], "/*") /\ HeaderArgs.ext = ".js"
                          THEN 2 ELSE 1))

\* The text that follows the closing marker on the line that closes a
\* leading block comment (<<>> when there is no such line or no such text).
CodeAfterBlockClose(lines) ==
    LET closes == {k \in 1..Len(lines) : \E j \in 1..Len(lines[k]) : lines[k][j] = "*/"}
        close == CHOOSE k \in closes : \A j \in closes : k <= j
        pos == CHOOSE j \in 1..Len(lines[close]) :
                   lines[close][j] = "*/" /\ \A i \in 1..(j - 1) : lines[close][i] # "*/"
    IN  IF lines = <<>> \/ ~IsCommentLine(lines[1], "/*") \/ closes = {} THEN <<>>
        ELSE Strip(SubSeq(lines[close], pos + 1, Len(lines[close])))

\* C28: header extraction never loses code; the code text that follows the
\* closing marker on the last line of a block comment is kept at the start
\* of the remaining code.  Violated: the whole closing line is dropped.
C28_CodeAfterBlockCloseKept ==
    (/\ p_fn = "extract_header_comment" /\ p_pc = "returned"
     /\ p_args.file_extension \in C_LIKE_EXTENSIONS
     /\ CodeAfterBlockClose(HeaderArgs.lines) # <<>>) =>
        IsPrefix(CodeAfterBlockClose(HeaderArgs.lines), p_ret.remaining)

\* What does hold: the remaining code is the content itself or is made of
\* whole original lines, a suffix of the file, and every line before it is
\* a line of the header or a blank line.
C28_RemainingIsWholeLines ==
    (p_fn = "extract_header_comment" /\ p_pc = "returned") =>
        \/ p_ret.remaining = p_args.content
        \/ \E j \in 1..(Len(HeaderArgs.lines) + 1) :
            /\ p_ret.remaining = JoinLines(SubSeq(HeaderArgs.lines, j, Len(HeaderArgs.lines)))
            /\ \A i \in 1..(j - 1) :
                   \/ i <= LeadingCommentLines(HeaderArgs.lines, HeaderArgs.ext)
                   \/ Strip(HeaderArgs.lines[i]) = <<>>

\* C22: when the content of an SVG file changes between two
\* convert_image_to_png calls for its path, the second call returns the
\* cache name derived from the hash of the new content.  Here: the cache
\* name a call returns is the hash of the content the file holds at the
\* call.  Violated: the name remembered for the path is returned.
C22_NameIsHashOfCurrentContent ==
    (/\ sv_last.fn = "convert_image_to_png"
     /\ sv_last.hasContent
     /\ IsCacheName(sv_last.ret)) =>
        sv_last.ret.name = Md5(sv_last.content)

\* What does hold when files are rewritten: convert_svg_content_to_png,
\* which is given the content, names the file by the hash of that content.
C22_ContentCallNameIsHash ==
    (sv_last.fn = "convert_svg_content_to_png" /\ IsCacheName(sv_last.ret)) =>
        sv_last.ret.name = Md5(sv_last.content)

\* C24: a URL whose image is already in the cache, downloaded earlier in
\* this run or present on disk under its URL-hash name from an earlier run,
\* is not fetched over HTTP again, and the call returns the cache path of
\* that image.  Violated for the files of an earlier run: the GET is sent
\* before the cache directory is looked at.
C24_CachedUrlNotFetched ==
    (dl_last # <<>> /\ (dl_last.in_memory \/ dl_last.on_disk # {})) =>
        /\ ~dl_last.get
        /\ dl_last.ret # NoPng
        /\ dl_last.first # NoPng => dl_last.ret = dl_last.first
        /\ dl_last.on_disk # {} => dl_last.ret.name \in dl_last.on_disk

\* What does hold: a URL downloaded earlier in this run is answered from
\* _conversion_cache, without a GET and with the path first returned.
C24_InRunNotFetched ==
    (dl_last # <<>> /\ dl_last.in_memory) =>
        ~dl_last.get /\ dl_last.ret = dl_last.first /\ dl_last.ret # NoPng

\* C27: after a clone_or_pull call that fails while cloning, whatever the
\* kind of failure, no repository directory is left in the workspace, so
\* the next call clones afresh.  Violated when clone_from fails with an
\* exception that is not a git.GitCommandError.
C27_FailedCloneLeavesNothing ==
    \A k \in 1..Len(gt_calls) :
        /\ (gt_calls[k].did = "clone" /\ gt_calls[k].outcome # "ok")
               => gt_calls[k].after = "none"
        /\ gt_calls[k].did = "pull" => gt_calls[k].before = "repo"

\* What does hold: a clone that fails with git.GitCommandError leaves no
\* directory, and a call that finds no directory clones.
C27_GitCommandErrorLeavesNothing ==
    \A k \in 1..Len(gt_calls) :
        /\ (gt_calls[k].did = "clone" /\ gt_calls[k].outcome = "GitCommandError")
               => gt_calls[k].after = "none"
        /\ gt_calls[k].before = "none" => gt_calls[k].did = "clone"

(***************************************************************************)
(* C30: hidden files and the place of the workspace                        *)
(***************************************************************************)
\* The places a workspace can live at: self.repo_path of a run.
WorkspacePaths == {<<"ws", "repo">>, <<".cache", "ws", "repo">>}

\* The repository-relative paths of a list of collected files.
RelsOf(files) == {files[i].rel : i \in DOMAIN files}

FilesCollected == cv_pc \in {"files", "config", "pandoc", "done"}

\* C30 (as stated): whether a file is excluded as hidden depends only on its
\* repository-relative path: a run whose workspace lives elsewhere (under a
\* dot-prefixed parent directory, say) collects the same repository-relative
\* files from the same repository.
C30_CollectedSetIndependentOfWorkspace ==
    FilesCollected =>
        \A other \in WorkspacePaths :
            RelsOf(collect_files(other, cv_found)) = RelsOf(cv_files)

\* C30 (what the code guarantees): with no dot-prefixed directory above the
\* repository, a file is collected exactly when its name is one of the three
\* allowed dotfiles or no segment of its relative path starts with a dot;
\* under a dot-prefixed parent only the allowed dotfiles are collected.
C30_HiddenByAbsoluteParts ==
    FilesCollected =>
        \A file \in cv_repo :
            (file.rel \in RelsOf(cv_files)) <=>
                \/ file.rel[Len(file.rel)] \in AllowedDotfiles
                \/ /\ \A i \in DOMAIN file.rel : ~StartsWithDot(file.rel[i])
                   /\ \A i \in DOMAIN cv_repo_path : ~StartsWithDot(cv_repo_path[i])

(***************************************************************************)
(* C25, C29: the hard wrap of code lines                                   *)
(***************************************************************************)
WrapReturned == p_fn = "_hard_wrap_lines" /\ p_pc = "returned"

\* C25: for every max_line_length L in 40..500, after _hard_wrap_lines no
\* line is longer than T = max(40, L); a line longer than T is cut into
\* consecutive chunks of width W = max(40, min(160, floor(0.75 L))), the last
\* one possibly shorter; W is at most T; the chunks concatenated are the
\* line; a line of at most T characters is unchanged.
C25_HardWrapCutsLongLines ==
    WrapReturned =>
        LET L == p_args.max_line_length
            T == IF L > 40 THEN L ELSE 40
            q == (3 * L) \div 4
            W == IF q > 160 THEN 160 ELSE IF q < 40 THEN 40 ELSE q
            lns == splitlines(p_args.content)
            result == splitlines(p_ret.text)
        IN  /\ W <= T
            /\ \A k \in DOMAIN result : Len(result[k]) <= T
            /\ Len(p_ret.out) = Len(lns)
            /\ \A k \in DOMAIN lns :
                   LET chunks == splitlines(p_ret.out[k])
                   IN  IF Len(lns[k]) > T
                       THEN /\ Flatten(chunks) = lns[k]
                            /\ Len(chunks) >= 2
                            /\ \A c \in 1..(Len(chunks) - 1) : Len(chunks[c]) = W
                            /\ Len(chunks[Len(chunks)]) \in 1..W
                       ELSE p_ret.out[k] = lns[k]

\* A line of 1001 characters under max_line_length 500 came back as six
\* chunks of 160 characters and one of 41.
C25_Witness ==
    /\ WrapReturned
    /\ p_args.max_line_length = 500
    /\ Len(p_args.content) = 1001
    /\ Len(splitlines(p_ret.text)) = 7
    /\ Len(splitlines(p_ret.text)[7]) = 41

BodyReturned == p_fn = "code_transformed" /\ p_pc = "returned"

\* C29 (as stated): every line of the code block body that process_code_file
\* emits is at most max(40, max_line_length) characters long, the lines in
\* which an emoji was replaced by an image directive included.
C29_EmittedLinesWithinThreshold ==
    BodyReturned =>
        LET result == splitlines(p_ret.text)
        IN  \A k \in DOMAIN result :
                Len(result[k]) <= hard_wrap_threshold(p_args.max_line_length)

\* C29 (what the code guarantees): the lines are within the threshold after
\* the hard wrap, and a line of the emitted body that is longer holds an
\* image directive.
C29_OnlyDirectiveLinesExceed ==
    BodyReturned =>
        LET wrapped == splitlines(p_ret.wrapped)
            result == splitlines(p_ret.text)
            T == hard_wrap_threshold(p_args.max_line_length)
        IN  /\ \A k \in DOMAIN wrapped : Len(wrapped[k]) <= T
            /\ Len(result) = Len(wrapped)
            /\ \A k \in DOMAIN result :
                   Len(result[k]) > T => \E i \in DOMAIN result[k] : result[k][i] = "{"

(***************************************************************************)
(* C26: the normalisation of paths and patterns                            *)
(***************************************************************************)
\* normalize_patterns, for one pattern of the list: the pattern appended to
\* out, <<>> when it is dropped.
normalize_pattern(pattern) ==
    LStrip(LStrip(ReplaceBackslash(Strip(pattern)), {".", "/"}), {"/"})

\* C26 (as stated): the normalisation removes only a leading "./" prefix and
\* leading "/" characters (and turns a backslash into "/"); the leading dot
\* of a hidden first segment stays, so that the pattern .a/** matches the
\* path .a/b and not the path a/b.
C26_HiddenFirstSegmentKept ==
    g_pc = "matched" =>
        /\ split_posix_parts(g_path) = Segments(g_path)
        /\ split_posix_parts(g_pat) = Segments(g_pat)
        /\ (g_pat = <<".", "a", "/", "*", "*">> /\ g_path = <<"a", "/", "b">> => ~g_res)

\* C26 (what the code guarantees): the parts are the segments of the value
\* without every leading dot and slash, and a pattern is normalised the same
\* way; .a/** matches .a/b.
C26_LeadingDotsRemoved ==
    g_pc = "matched" =>
        /\ split_posix_parts(g_path) = Segments(LStrip(ReplaceBackslash(Strip(g_path)), {".", "/"}))
        /\ split_posix_parts(g_pat) = DropEmptyAndDot(SplitSlash(normalize_pattern(g_pat), <<>>))
        /\ (g_pat = <<".", "a", "/", "*", "*">> /\ g_path = <<".", "a", "/", "b">> => g_res)

(***************************************************************************)
(* C23: the images a Markdown file refers to                               *)
(***************************************************************************)
\* The image the reference of the Markdown file resolved to.
Referred == resolve_image_path(as_repo.ref, as_repo)

\* C23 (as stated): whenever the Markdown transformer rewrote a local raster
\* reference to images/<name>, the images directory holds a file <name> with
\* that image when the document is handed to pandoc, wherever the image lies
\* in the repository and whichever of the two files is processed first.
C23_RewrittenReferenceHasItsFile ==
    as_pc = "pandoc" =>
        \A r \in as_doc : \E f \in as_images : f.name = r.name /\ f.shows = r.shows

\* C23 (what the code guarantees): the file is there when the image lies
\* outside hidden and ignored directories and no other collected image has
\* its name; the order of the two files makes no difference.
C23_CollectedUniqueImageHasItsFile ==
    as_pc = "pandoc" =>
        \A img \in Referred :
            ( /\ img.dir # ".github"
              /\ img.dir \notin AssetIgnores
              /\ \A other \in as_repo.images :
                     other.name = img.name /\ other # img
                         => (other.dir = ".github" \/ other.dir \in AssetIgnores) )
                => /\ [name |-> img.name, shows |-> img.shows] \in as_doc
                   /\ [name |-> img.name, shows |-> img.shows] \in as_images

=============================================================================
